---- MODULE Spec2Model ----
(***************************************************************************)
(* Model of the puplabs-analytics reporting pipeline: the POST /analytics  *)
(* orchestrator with its TTL cache, and the pure metric/filter functions.  *)
(*                                                                         *)
(* Conventions                                                             *)
(*   - a JavaScript string is a sequence of tokens (characters for tags,   *)
(*     path segments and separators for URLs);                             *)
(*   - a JSON value is a record tagged by field t                          *)
(*     ("undef", "str", "bool", "arr", "obj");                             *)
(*   - money entering calculatePageMetrics is an integer number of         *)
(*     thousandths, every rounded output is an integer number of           *)
(*     hundredths; arithmetic is exact (IEEE-754 error is not modelled);   *)
(*   - time is counted in minutes.                                         *)
(***************************************************************************)
EXTENDS Integers, Sequences, FiniteSets, TLC

VARIABLES req, cache, pending, nextId, now, ticks, inp, out

vars == <<req, cache, pending, nextId, now, ticks, inp, out>>

orchVars == <<req, cache, pending, nextId, now, ticks>>

(***************************************************************************)
(* Bounds of the model.                                                    *)
(***************************************************************************)
MaxTicks == 2

(* The two clients whose requests the model follows. *)
Reqs == {1, 2}

(***************************************************************************)
(* Generic helpers.                                                        *)
(***************************************************************************)
RECURSIVE SumSeq(_)
SumSeq(s) ==
  IF Len(s) = 0 THEN 0
  ELSE IF Len(s) = 1 THEN s[1]
  ELSE LET h == Len(s) \div 2
       IN SumSeq(SubSeq(s, 1, h)) + SumSeq(SubSeq(s, h + 1, Len(s)))

Range(s) == {s[i] : i \in DOMAIN s}

(***************************************************************************)
(* JSON values.                                                            *)
(***************************************************************************)
Undef == [t |-> "undef"]

JStr(s) == [t |-> "str", s |-> s]

JBool(b) == [t |-> "bool", b |-> b]

JArr(a) == [t |-> "arr", a |-> a]

JObj(ks, f) == [t |-> "obj", ks |-> ks, f |-> f]

(* v.k of an object (undefined when the property is absent). *)
Prop(v, k) == IF v.t = "obj" /\ k \in DOMAIN v.f THEN v.f[k] ELSE Undef

(* JavaScript truthiness, as used by `!x` and `if (x)`. *)
Truthy(v) ==
  CASE v.t = "undef" -> FALSE
    [] v.t = "str" -> v.s # <<>>
    [] v.t = "bool" -> v.b
    [] OTHER -> TRUE

(***************************************************************************)
(* JSON.stringify(value, K) with an array replacer K: K is the property    *)
(* allow-list, applied to every object at every depth; array elements are  *)
(* not filtered; a property whose value is undefined is omitted.           *)
(***************************************************************************)
RECURSIVE Stringify(_, _), StringifyElems(_, _, _), StringifyProps(_, _, _, _)
Stringify(v, K) ==
  CASE v.t = "str" -> <<"\"">> \o v.s \o <<"\"">>
    [] v.t = "bool" -> IF v.b THEN <<"true">> ELSE <<"false">>
    [] v.t = "arr" -> <<"[">> \o StringifyElems(v.a, K, 1) \o <<"]">>
    [] v.t = "obj" -> <<"{">> \o StringifyProps(v, K, 1, FALSE) \o <<"}">>
    [] OTHER -> <<>>

StringifyElems(a, K, i) ==
  IF i > Len(a) THEN <<>>
  ELSE (IF i > 1 THEN <<",">> ELSE <<>>)
       \o (IF a[i].t = "undef" THEN <<"null">> ELSE Stringify(a[i], K))
       \o StringifyElems(a, K, i + 1)

StringifyProps(v, K, i, some) ==
  IF i > Len(K) THEN <<>>
  ELSE IF K[i] \in DOMAIN v.f /\ v.f[K[i]].t # "undef"
       THEN (IF some THEN <<",">> ELSE <<>>)
            \o <<"\"", K[i], "\"", ":">>
            \o Stringify(v.f[K[i]], K)
            \o StringifyProps(v, K, i + 1, TRUE)
       ELSE StringifyProps(v, K, i + 1, some)

(* Object.keys({urls, dateRange, tagFilter}).sort() *)
ParamKeysSorted == <<"dateRange", "tagFilter", "urls">>

(* crypto md5 digest, idealised as collision-free. *)
Md5Hex(s) == <<"md5">> \o s

(* generateCacheKey({ urls, dateRange, tagFilter }) *)
generateCacheKey(params) == Md5Hex(Stringify(params, ParamKeysSorted))

CacheParams(body) ==
  JObj(<<"urls", "dateRange", "tagFilter">>,
       [urls |-> Prop(body, "urls"),
        dateRange |-> Prop(body, "dateRange"),
        tagFilter |-> Prop(body, "tagFilter")])

CACHE_TTL_MINUTES == 30

(***************************************************************************)
(* URL helpers.  A URL is a sequence of tokens: an optional origin token,  *)
(* then "/" separators and path segments.                                  *)
(***************************************************************************)
Origins == {"https://shop.example"}

PathStops == {"/", "?", "#"}

StartsWithSlash(u) == u # <<>> /\ u[1] = "/"

StartsWithHttp(u) == u # <<>> /\ u[1] \in Origins

(* extractProductHandle: ^\/products\/([^/?#]+) on the slash-prefixed input;
   the result is <<>> for null. *)
extractProductHandle(urlPath) ==
  LET normalized == IF StartsWithSlash(urlPath) THEN urlPath ELSE <<"/">> \o urlPath
  IN IF Len(normalized) >= 4
        /\ normalized[1] = "/" /\ normalized[2] = "products" /\ normalized[3] = "/"
        /\ normalized[4] \notin PathStops \cup Origins
     THEN <<normalized[4]>>
     ELSE <<>>

(* URL.pathname: the tokens after the origin up to the first "?" or "#". *)
RECURSIVE TakePath(_)
TakePath(u) ==
  IF u = <<>> \/ Head(u) \in {"?", "#"} THEN <<>>
  ELSE <<Head(u)>> \o TakePath(Tail(u))

Pathname(u) ==
  LET p == TakePath(Tail(u)) IN IF p = <<>> THEN <<"/">> ELSE p

(* normalizeUrlPath *)
normalizeUrlPath(url) ==
  IF StartsWithHttp(url) THEN Pathname(url)
  ELSE IF StartsWithSlash(url) THEN url ELSE <<"/">> \o url

(***************************************************************************)
(* Rounding and calculatePageMetrics.                                      *)
(***************************************************************************)
(* the hundredths cut off instead of rounded *)
Round2_Truncating(num, den) == (100 * num) \div den

(* Math.round(100 * num / den), den > 0: the nearest integer number of
   hundredths, halves rounded up. *)
Round2(num, den) == (200 * num + den) \div (2 * den)

(* the averages taken from the revenue already rounded to cents *)
calculatePageMetrics_FromRounded(url, productTitle, sessions, productRevenue, orderCount) ==
  LET rounded == 10 * Round2(productRevenue, 1000)
  IN [url |-> url,
      productTitle |-> productTitle,
      sessions |-> sessions,
      totalRevenue |-> Round2(productRevenue, 1000),
      revenuePerVisitor |-> IF sessions > 0 THEN Round2(rounded, 1000 * sessions) ELSE 0,
      conversionRate |-> IF sessions > 0 THEN Round2(100 * orderCount, sessions) ELSE 0,
      aov |-> IF orderCount > 0 THEN Round2(rounded, 1000 * orderCount) ELSE 0,
      orderCount |-> orderCount]

(* calculatePageMetrics(url, productTitle, sessions, productRevenue,
   orderCount); productRevenue is in thousandths. *)
calculatePageMetrics(url, productTitle, sessions, productRevenue, orderCount) ==
  [url |-> url,
   productTitle |-> productTitle,
   sessions |-> sessions,
   totalRevenue |-> Round2(productRevenue, 1000),
   revenuePerVisitor |-> IF sessions > 0 THEN Round2(productRevenue, 1000 * sessions) ELSE 0,
   conversionRate |-> IF sessions > 0 THEN Round2(100 * orderCount, sessions) ELSE 0,
   aov |-> IF orderCount > 0 THEN Round2(productRevenue, 1000 * orderCount) ELSE 0,
   orderCount |-> orderCount]

(***************************************************************************)
(* String helpers for tags.  A tag string is a sequence of tokens: words,  *)
(* the blank " " and the separator ",".                                    *)
(***************************************************************************)
(* toLowerCase of one token *)
LowerOf(c) ==
  CASE c \in {"VIP", "Vip"} -> "vip"
    [] c \in {"SALE", "Sale"} -> "sale"
    [] c \in {"WHOLESALE", "Wholesale"} -> "wholesale"
    [] c \in {"SUBSCRIPTION", "Subscription"} -> "subscription"
    [] c \in {"RECURRING", "Recurring"} -> "recurring"
    [] c \in {"ORDER", "Order"} -> "order"
    [] c \in {"FOO", "Foo"} -> "foo"
    [] OTHER -> c

(* String.prototype.toLowerCase *)
ToLowerCase(s) == [i \in DOMAIN s |-> LowerOf(s[i])]

RECURSIVE TrimStart(_)
TrimStart(s) == IF s # <<>> /\ Head(s) = " " THEN TrimStart(Tail(s)) ELSE s

RECURSIVE TrimEnd(_)
TrimEnd(s) ==
  IF s # <<>> /\ s[Len(s)] = " " THEN TrimEnd(SubSeq(s, 1, Len(s) - 1)) ELSE s

(* String.prototype.trim *)
Trim(s) == TrimEnd(TrimStart(s))

(* String.prototype.split(','): the sequence of the segments between commas
   (one empty segment for the empty string). *)
RECURSIVE SplitFrom(_, _)
SplitFrom(s, cur) ==
  IF s = <<>> THEN <<cur>>
  ELSE IF Head(s) = "," THEN <<cur>> \o SplitFrom(Tail(s), <<>>)
       ELSE SplitFrom(Tail(s), Append(cur, Head(s)))

SplitComma(s) == SplitFrom(s, <<>>)

(* Array.prototype.includes *)
Includes(arr, x) == \E i \in DOMAIN arr : arr[i] = x

(***************************************************************************)
(* filterOrdersByTags (src/lib/calculations.ts).  An order is a record     *)
(* with a field tags (the comma-joined tag string); a filter is            *)
(* [tags |-> sequence of tag strings, logic |-> "AND" | "OR"].             *)
(***************************************************************************)
(* order.tags split on commas, each element trimmed and lower-cased *)
OrderTagList(order) ==
  LET parts == SplitComma(order.tags)
  IN [i \in DOMAIN parts |-> ToLowerCase(Trim(parts[i]))]

(* the predicate of orders.filter(...) *)
TagFilterKeeps(order, tagFilter) ==
  LET orderTags == OrderTagList(order)
  IN IF tagFilter.logic = "AND"
     THEN \A i \in DOMAIN tagFilter.tags : Includes(orderTags, ToLowerCase(tagFilter.tags[i]))
     ELSE \E i \in DOMAIN tagFilter.tags : Includes(orderTags, ToLowerCase(tagFilter.tags[i]))

RECURSIVE FilterSeq(_, _)
FilterSeq(orders, tagFilter) ==
  IF orders = <<>> THEN <<>>
  ELSE (IF TagFilterKeeps(Head(orders), tagFilter) THEN <<Head(orders)>> ELSE <<>>)
       \o FilterSeq(Tail(orders), tagFilter)

(* filterOrdersByTags(orders, tagFilter); hasFilter is FALSE for an
   undefined tagFilter. *)
filterOrdersByTags(orders, hasFilter, tagFilter) ==
  IF ~hasFilter \/ Len(tagFilter.tags) = 0 THEN orders
  ELSE FilterSeq(orders, tagFilter)

(***************************************************************************)
(* The environment of POST /analytics: stored shops, the upstream catalog, *)
(* analytics rows and orders, and the request bodies clients send.         *)
(***************************************************************************)
NoCookie == ""

(* rows of the shop table *)
ShopTable ==
  {[id |-> "shop-1", domain |-> "one.myshopify.com", accessToken |-> "tok-1"],
   [id |-> "shop-2", domain |-> "two.myshopify.com", accessToken |-> "tok-2"]}

Cookies == {NoCookie, "one.myshopify.com", "two.myshopify.com", "gone.myshopify.com"}

NoSession == [found |-> FALSE, shop |-> "", accessToken |-> "", shopId |-> ""]

(* a session built from the cookie alone, without the stored-shop check *)
getShopSession_Trusting(cookie) ==
  IF cookie = NoCookie THEN NoSession
  ELSE [found |-> TRUE, shop |-> cookie, accessToken |-> "", shopId |-> cookie]

(* getShopSession: null without a cookie or without a stored shop *)
getShopSession(cookie) ==
  IF cookie = NoCookie THEN NoSession
  ELSE IF \E s \in ShopTable : s.domain = cookie
       THEN LET shop == CHOOSE s \in ShopTable : s.domain = cookie
            IN [found |-> TRUE, shop |-> shop.domain,
                accessToken |-> shop.accessToken, shopId |-> shop.id]
       ELSE NoSession

UrlA == <<"/", "products", "/", "a">>

UrlB == <<"/", "products", "/", "b">>

(* a product URL whose handle the catalog does not know *)
UrlGone == <<"/", "products", "/", "gone">>

(* a URL without a product handle *)
UrlPage == <<"/", "pages", "/", "about">>

DateRangeOf(start, end) ==
  JObj(<<"start", "end">>, [start |-> JStr(<<start>>), end |-> JStr(<<end>>)])

DateJan == DateRangeOf("2024-01-01", "2024-01-31")

DateQ1 == DateRangeOf("2024-01-01", "2024-03-31")

DateNoStart == JObj(<<"end">>, [end |-> JStr(<<"2024-01-31">>)])

TagFilterOf(tags, logic) ==
  JObj(<<"tags", "logic">>,
       [tags |-> JArr([i \in DOMAIN tags |-> JStr(tags[i])]), logic |-> JStr(<<logic>>)])

WholesaleOr == TagFilterOf(<< <<"wholesale">> >>, "OR")

UrlList(urls) == JArr([i \in DOMAIN urls |-> JStr(urls[i])])

BodyOf(urls, dateRange, tagFilter, refresh) ==
  JObj(<<"urls", "dateRange", "tagFilter", "refresh">>,
       [urls |-> urls, dateRange |-> dateRange, tagFilter |-> tagFilter,
        refresh |-> refresh])

(* the request bodies of the model *)
Bodies ==
  {BodyOf(UrlList(<<UrlA>>), DateJan, Undef, Undef),
   BodyOf(UrlList(<<UrlA>>), DateQ1, Undef, Undef),
   BodyOf(UrlList(<<UrlA>>), DateJan, WholesaleOr, Undef),
   BodyOf(UrlList(<<UrlA>>), DateJan, Undef, JBool(TRUE)),
   BodyOf(UrlList(<<UrlA, UrlB>>), DateJan, Undef, Undef),
   BodyOf(UrlList(<<UrlGone, UrlA, UrlPage>>), DateJan, Undef, Undef),
   BodyOf(Undef, DateJan, Undef, Undef),
   BodyOf(UrlList(<<>>), DateJan, Undef, Undef),
   BodyOf(UrlList(<<UrlA>>), Undef, Undef, Undef),
   BodyOf(UrlList(<<UrlA>>), DateNoStart, Undef, Undef)}

(* the bodies each client sends: the first client any of them, the second
   the well-formed single-URL ones *)
BodiesOf(r) ==
  IF r = 1 THEN Bodies
  ELSE {BodyOf(UrlList(<<UrlA>>), DateJan, Undef, Undef),
        BodyOf(UrlList(<<UrlA>>), DateQ1, Undef, Undef),
        BodyOf(UrlList(<<UrlA>>), DateJan, Undef, JBool(TRUE))}

NoProduct == [found |-> FALSE, id |-> 0, title |-> "Unknown Product"]

(* the upstream catalog: GET /products.json?handle=h *)
CatalogLookup(handle) ==
  CASE handle = <<"a">> -> [found |-> TRUE, id |-> 1, title |-> "Product A"]
    [] handle = <<"b">> -> [found |-> TRUE, id |-> 2, title |-> "Product B"]
    [] OTHER -> NoProduct

RangeEnd(dateRange) == dateRange.f.end.s

(* the upstream analytics rows: sessions and conversion rate (in basis
   points) of a landing path over a date range *)
AnalyticsWorld(path, dateRange) ==
  CASE path = UrlA /\ RangeEnd(dateRange) = <<"2024-01-31">> -> [sessions |-> 100, cvr |-> 500]
    [] path = UrlA /\ RangeEnd(dateRange) = <<"2024-03-31">> -> [sessions |-> 150, cvr |-> 400]
    [] OTHER -> [sessions |-> 0, cvr |-> 0]

(* the upstream orders of a product over a date range: amount in
   thousandths, tags as a list of tag strings *)
Order100 == [amount |-> 100000, tags |-> << <<"vip">> >>]

OrdersWorld(productId, dateRange) ==
  CASE productId = 1 /\ RangeEnd(dateRange) = <<"2024-01-31">> ->
         <<Order100, Order100, Order100, Order100, Order100>>
    [] productId = 1 /\ RangeEnd(dateRange) = <<"2024-03-31">> ->
         <<Order100, Order100, Order100, Order100, Order100, Order100, Order100>>
    [] OTHER -> <<>>

(* Tag to exclude: Recharge subscription rebills *)
REBILL_TAG == <<"subscription", " ", "recurring", " ", "order">>

(* orderTags.some(tag => tag.toLowerCase().trim() === REBILL_TAG) *)
IsRebill(tags) == \E i \in DOMAIN tags : Trim(ToLowerCase(tags[i])) = REBILL_TAG

(***************************************************************************)
(* Upstream gateway functions called by the current route whose source is  *)
(* not part of the repository snapshot.                                    *)
(***************************************************************************)
(* Math.round(sessions * conversionRate), the rate given in basis points *)
OrdersFromRate(sessions, cvr) == (2 * sessions * cvr + 10000) \div 20000

ZeroRow == [sessions |-> 0, conversionRate |-> 0, orders |-> 0]

(* fetchLandingPageData: one row per requested path; all rows are zero when
   the query fails or returns a parse error *)
fetchLandingPageData(urlPaths, dateRange, degraded) ==
  [p \in Range(urlPaths) |->
     IF degraded THEN ZeroRow
     ELSE LET w == AnalyticsWorld(p, dateRange)
          IN [sessions |-> w.sessions, conversionRate |-> w.cvr,
              orders |-> OrdersFromRate(w.sessions, w.cvr)]]

DropRebills(orders) ==
  LET Kept(order) == ~IsRebill(order.tags)
  IN SelectSeq(orders, Kept)

(* fetchRevenueForProduct: the summed totals of the product's orders, capped
   to maxOrders orders; zero when the sub-call fails *)
fetchRevenueForProduct(productId, dateRange, maxOrders, failed) ==
  LET eligible == DropRebills(OrdersWorld(productId, dateRange))
      n == IF Len(eligible) < maxOrders THEN Len(eligible) ELSE maxOrders
      taken == SubSeq(eligible, 1, n)
  IN IF failed THEN [totalRevenue |-> 0, ordersFound |-> 0]
     ELSE [totalRevenue |-> SumSeq([i \in DOMAIN taken |-> taken[i].amount]),
           ordersFound |-> n]

(***************************************************************************)
(* POST /analytics (src/app/api/shopify/analytics/route.ts) and the cache  *)
(* (lib/cache).                                                            *)
(***************************************************************************)
MsgSessionFailed == "Session lookup failed. Please reconnect your store."

MsgNotAuthenticated == "Not authenticated. Please reconnect your store."

MsgUrlRequired == "At least one URL is required"

MsgDateRequired == "Date range is required"

MsgResolveFailed == "Failed to look up products. Check your URLs are valid product pages."

MsgUpstreamTimeout == "Shopify API request timed out. Try a shorter date range or fewer URLs."

NoPayload == [pages |-> <<>>, dateRange |-> Undef, tagFilter |-> Undef, lastUpdated |-> 0 - 1]

NoKey == <<>>

(* the row a request's cache lookup found, if any: who wrote it and whether
   the clock had passed its expiresAt *)
NotSeen == [row |-> FALSE, writer |-> 0, stale |-> FALSE]

IdleReq ==
  [pc |-> "idle", cookie |-> NoCookie, sess |-> NoSession, body |-> Undef,
   key |-> NoKey, cachedId |-> 0, resolved |-> {},
   status |-> 0, error |-> "", payload |-> NoPayload,
   hit |-> FALSE, stage |-> "", raw |-> "",
   calls |-> 0, cacheReads |-> 0, cacheWrites |-> 0, cacheClears |-> 0,
   seen |-> NotSeen, hadEntry |-> FALSE, prior |-> {}, fault |-> {}]

(* NextResponse.json({ error }, { status }) *)
Fail(rq, status, error) ==
  [rq EXCEPT !.pc = "done", !.status = status, !.error = error]

(* lines 32-35: the catch block of the session lookup *)
SessionCatch(rq) == Fail(rq, 500, MsgSessionFailed)

(* lines 92-98: the catch block of the product resolution stage *)
ResolveCatch(rq) == Fail(rq, 504, MsgResolveFailed)

(* the stage failure passed on as a 500 carrying the error's own text *)
FetchCatch_Raw(rq) == Fail(rq, 500, rq.raw)

(* lines 179-185: the catch block of the fetch/compute stage *)
FetchCatch(rq) == Fail(rq, 504, MsgUpstreamTimeout)

(* lines 186-193: the outer catch block answers with the error's message *)
OuterCatch(rq) == Fail(rq, 500, rq.raw)

(* an exception with the given message is raised in the given stage *)
Raise(rq, stage, message) == [rq EXCEPT !.stage = stage, !.raw = message]

(* the message of the exception thrown by the logging statement of line 48,
   which reads urls.length, dateRange.start and dateRange.end before the
   validation ("" when it does not throw) *)
LogThrows(body) ==
  IF Prop(body, "urls").t = "undef"
  THEN "Cannot read properties of undefined (reading 'length')"
  ELSE IF Prop(body, "dateRange").t = "undef"
       THEN "Cannot read properties of undefined (reading 'start')"
       ELSE ""

UrlsOf(body) == LET a == Prop(body, "urls").a IN [i \in DOMAIN a |-> a[i].s]

(* prisma.cachedQuery.findUnique({ where: { shopId_queryKey } }) *)
FindRows(shopId, queryKey) ==
  {row \in cache : row.shopId = shopId /\ row.queryKey = queryKey}

(* the cookie jar of each client: the first client belongs to the first
   shop, has a stale cookie or none; the second is signed in to either shop *)
CookieJar(r) ==
  IF r = 1 THEN Cookies \ {"two.myshopify.com"}
  ELSE {"one.myshopify.com", "two.myshopify.com"}

(* lines 25-42: a request carrying cookie c arrives and its session is looked
   up; ok is FALSE when the lookup throws or exceeds its 5 s budget (only a
   lookup that reaches the database can) *)
Receive(r, c, ok) ==
  /\ req[r].pc = "idle"
  /\ ~ok => c # NoCookie
  /\ LET s == getShopSession(c)
         arrived == [IdleReq EXCEPT !.cookie = c,
                                    !.prior = {q \in Reqs : req[q].pc = "done"}]
     IN req' = [req EXCEPT ![r] =
                  IF ~ok
                  THEN SessionCatch(Raise(arrived, "session", "Session lookup timed out after 5000ms"))
                  ELSE IF ~s.found THEN Fail(arrived, 401, MsgNotAuthenticated)
                  ELSE [arrived EXCEPT !.pc = "parse", !.sess = s]]
  /\ UNCHANGED <<cache, pending, nextId, now, ticks, inp, out>>

(* the refresh flag ignored: the cache is always read *)
AfterValidation_AlwaysRead(body) == "cacheFind"

(* lines 61 and 75: the cache is read unless refresh is requested *)
AfterValidation(body) ==
  IF ~Truthy(Prop(body, "refresh")) THEN "cacheFind" ELSE "cacheClear"

(* lines 44-59: request.json(), the logging statement, validation and the
   cache key *)
ParseBody(r, b) ==
  /\ req[r].pc = "parse"
  /\ LET urls == Prop(b, "urls")
         dateRange == Prop(b, "dateRange")
         thrown == LogThrows(b)
         parsed == [req[r] EXCEPT !.body = b]
     IN req' = [req EXCEPT ![r] =
                  IF thrown # ""
                  THEN OuterCatch(Raise(parsed, "parse", thrown))
                  ELSE IF ~Truthy(urls) \/ Len(urls.a) = 0
                  THEN Fail(parsed, 400, MsgUrlRequired)
                  ELSE IF ~Truthy(Prop(dateRange, "start")) \/ ~Truthy(Prop(dateRange, "end"))
                  THEN Fail(parsed, 400, MsgDateRequired)
                  ELSE [parsed EXCEPT !.key = generateCacheKey(CacheParams(b)),
                                      !.pc = AfterValidation(b)]]
  /\ UNCHANGED <<cache, pending, nextId, now, ticks, inp, out>>

(* an entry counted as expired already at its expiresAt *)
IsExpired_Inclusive(cached) == now >= cached.expiresAt

(* getCachedData, line 177: new Date() > cached.expiresAt *)
IsExpired(cached) == now > cached.expiresAt

(* lines 68-71: a cached payload is returned as the response *)
CacheHit(rq, cached) ==
  [rq EXCEPT !.pc = "done", !.status = 200, !.hit = TRUE, !.payload = cached.data]

(* a failed cache read passed on to the outer catch block *)
CacheFind_Propagating(r, ok) ==
  /\ req[r].pc = "cacheFind"
  /\ LET rows == FindRows(req[r].sess.shopId, req[r].key)
         reading == [req[r] EXCEPT !.cacheReads = @ + 1]
     IN req' = [req EXCEPT ![r] =
                  IF ~ok
                  THEN OuterCatch(Raise([reading EXCEPT
                                           !.fault = IF rows = {} THEN @ ELSE @ \cup {"read"}],
                                        "cache", "Cache lookup timed out after 3000ms"))
                  ELSE IF rows = {}
                  THEN [reading EXCEPT !.pc = "resolve"]
                  ELSE LET cached == CHOOSE row \in rows : TRUE
                           looked == [reading EXCEPT
                                        !.seen = [row |-> TRUE, writer |-> cached.writer,
                                                  stale |-> now >= cached.expiresAt + 1]]
                       IN IF now > cached.expiresAt
                          THEN [looked EXCEPT !.pc = "cacheDelete", !.cachedId = cached.id]
                          ELSE CacheHit(looked, cached)]
  /\ UNCHANGED <<cache, pending, nextId, now, ticks, inp, out>>

(* lines 61-74 and getCachedData up to its expiry test; ok is FALSE when the
   read throws or exceeds its 3 s budget.  fault records the cache
   operations of the request that failed: a read while an entry of its key
   exists, a lazy delete, a clear while its tenant has entries, a write. *)
CacheFind(r, ok) ==
  /\ req[r].pc = "cacheFind"
  /\ LET rows == FindRows(req[r].sess.shopId, req[r].key)
         reading == [req[r] EXCEPT !.cacheReads = @ + 1]
     IN req' = [req EXCEPT ![r] =
                  IF ~ok
                  THEN [reading EXCEPT !.pc = "resolve",
                                       !.fault = IF rows = {} THEN @ ELSE @ \cup {"read"}]
                  ELSE IF rows = {}
                  THEN [reading EXCEPT !.pc = "resolve"]
                  ELSE LET cached == CHOOSE row \in rows : TRUE
                           looked == [reading EXCEPT
                                        !.seen = [row |-> TRUE, writer |-> cached.writer,
                                                  stale |-> now >= cached.expiresAt + 1]]
                       IN IF IsExpired(cached)
                          THEN [looked EXCEPT !.pc = "cacheDelete", !.cachedId = cached.id]
                          ELSE CacheHit(looked, cached)]
  /\ UNCHANGED <<cache, pending, nextId, now, ticks, inp, out>>

(* an expired read that answers null and leaves the row in place *)
CacheDelete_Skipped(r, ok) ==
  /\ req[r].pc = "cacheDelete"
  /\ cache' = cache
  /\ req' = [req EXCEPT ![r] =
               [@ EXCEPT !.pc = "resolve",
                         !.fault = IF ok THEN @ ELSE @ \cup {"delete"}]]
  /\ UNCHANGED <<pending, nextId, now, ticks, inp, out>>

(* getCachedData, lines 177-182: the lazy delete of the expired row by id *)
CacheDelete(r, ok) ==
  /\ req[r].pc = "cacheDelete"
  /\ cache' = IF ok THEN {row \in cache : row.id # req[r].cachedId} ELSE cache
  /\ req' = [req EXCEPT ![r] =
               [@ EXCEPT !.pc = "resolve",
                         !.fault = IF ok THEN @ ELSE @ \cup {"delete"}]]
  /\ UNCHANGED <<pending, nextId, now, ticks, inp, out>>

(* the entries of a tenant *)
RowsOfShop(shopId) == {row \in cache : row.shopId = shopId}

(* a clear that deletes the entry of the request's own key only *)
CacheClear_OwnKey(r, ok) ==
  /\ req[r].pc = "cacheClear"
  /\ cache' = IF ok THEN cache \ FindRows(req[r].sess.shopId, req[r].key) ELSE cache
  /\ req' = [req EXCEPT ![r] =
               [@ EXCEPT !.pc = "resolve", !.cacheClears = @ + 1,
                         !.fault = IF ok \/ RowsOfShop(req[r].sess.shopId) = {}
                                   THEN @ ELSE @ \cup {"clear"},
                         !.hadEntry = \E row \in FindRows(req[r].sess.shopId, req[r].key) :
                                         now <= row.expiresAt]]
  /\ UNCHANGED <<pending, nextId, now, ticks, inp, out>>

(* lines 75-81 and clearCache: deleteMany({ where: { shopId } }); ok is FALSE
   when it throws (logged and swallowed) *)
CacheClear(r, ok) ==
  /\ req[r].pc = "cacheClear"
  /\ cache' = IF ok THEN {row \in cache : row.shopId # req[r].sess.shopId} ELSE cache
  /\ req' = [req EXCEPT ![r] =
               [@ EXCEPT !.pc = "resolve", !.cacheClears = @ + 1,
                         !.fault = IF ok \/ RowsOfShop(req[r].sess.shopId) = {}
                                   THEN @ ELSE @ \cup {"clear"},
                         !.hadEntry = \E row \in FindRows(req[r].sess.shopId, req[r].key) :
                                         now <= row.expiresAt]]
  /\ UNCHANGED <<pending, nextId, now, ticks, inp, out>>

HandleIndexes(urls) == {i \in DOMAIN urls : extractProductHandle(urls[i]) # <<>>}

(* lines 83-99 and resolveProductsFromUrls: fetchProductByHandle for every
   URL with a handle (failedLookups are the lookups that fail and yield
   null); ok is FALSE when the stage throws or exceeds its 30 s budget, after
   issued lookups *)
Resolve(r, ok) ==
  /\ req[r].pc = "resolve"
  /\ LET urls == UrlsOf(req[r].body)
         withHandle == HandleIndexes(urls)
     IN IF ok
        THEN \E failedLookups \in SUBSET withHandle :
               req' = [req EXCEPT ![r] =
                         [@ EXCEPT
                            !.pc = "fetch",
                            !.calls = @ + Cardinality(withHandle),
                            !.resolved =
                               {urls[i] : i \in {j \in withHandle \ failedLookups :
                                    CatalogLookup(extractProductHandle(urls[j])).found}}]]
        ELSE \E issued \in 1..Cardinality(withHandle) :
               req' = [req EXCEPT ![r] =
                         ResolveCatch(Raise([@ EXCEPT !.calls = @ + issued], "resolve",
                                            "Product resolution timed out after 30000ms"))]
  /\ UNCHANGED <<cache, pending, nextId, now, ticks, inp, out>>

ProductOf(url) == CatalogLookup(extractProductHandle(url))

(* lines 123-137: the URLs for which fetchRevenueForProduct is called *)
RevenueIndexes(urls, resolved, landingPageMap) ==
  {i \in DOMAIN urls :
     urls[i] \in resolved /\ landingPageMap[normalizeUrlPath(urls[i])].orders # 0}

(* the metrics built from the landing-page row whether or not a product was
   resolved *)
BuildPages_Unguarded(urls, resolved, landingPageMap, dateRange, revFailed) ==
  [i \in DOMAIN urls |->
     LET url == urls[i]
         lpData == landingPageMap[normalizeUrlPath(url)]
     IN calculatePageMetrics(url, ProductOf(url).title, lpData.sessions, 0, lpData.orders)]

(* lines 123-160: one PageMetrics per URL *)
BuildPages(urls, resolved, landingPageMap, dateRange, revFailed) ==
  [i \in DOMAIN urls |->
     LET url == urls[i]
         lpData == landingPageMap[normalizeUrlPath(url)]
         product == ProductOf(url)
         revenue ==
           IF i \in RevenueIndexes(urls, resolved, landingPageMap)
           THEN fetchRevenueForProduct(product.id, dateRange, lpData.orders,
                                       i \in revFailed).totalRevenue
           ELSE 0
     IN IF url \notin resolved
        THEN calculatePageMetrics(url, "Unknown Product", 0, 0, 0)
        ELSE calculatePageMetrics(url, product.title, lpData.sessions, revenue,
                                  lpData.orders)]

(* a row written without regard to the tenant of the request *)
CacheWrite_AnyTenant(shopId, queryKey, data, writer) ==
  [shopId |-> "shop-1", queryKey |-> queryKey, data |-> data,
   expiresAt |-> now + CACHE_TTL_MINUTES, writer |-> writer]

(* setCachedData up to its upsert call: the row to be written *)
CacheWrite(shopId, queryKey, data, writer) ==
  [shopId |-> shopId, queryKey |-> queryKey, data |-> data,
   expiresAt |-> now + CACHE_TTL_MINUTES, writer |-> writer]

FetchOutcomes == {"ok", "degraded", "landingTimeout", "revenueTimeout"}

(* lines 101-185: the sessions query, the per-URL revenue calls, the page
   metrics, the fire-and-forget cache write and the response *)
FetchData(r, outcome) ==
  /\ req[r].pc = "fetch"
  /\ LET body == req[r].body
         urls == UrlsOf(body)
         dateRange == Prop(body, "dateRange")
         urlPaths == [i \in DOMAIN urls |-> normalizeUrlPath(urls[i])]
         landingPageMap == fetchLandingPageData(urlPaths, dateRange, outcome = "degraded")
         needed == RevenueIndexes(urls, req[r].resolved, landingPageMap)
     IN CASE outcome = "landingTimeout" ->
               /\ req' = [req EXCEPT ![r] =
                            FetchCatch(Raise([@ EXCEPT !.calls = @ + 1], "fetch",
                                             "ShopifyQL sessions query timed out after 60000ms"))]
               /\ UNCHANGED pending
          [] outcome = "revenueTimeout" ->
               /\ needed # {}
               /\ req' = [req EXCEPT ![r] =
                            FetchCatch(Raise([@ EXCEPT !.calls = @ + 1 + Cardinality(needed)],
                                             "fetch",
                                             "GraphQL revenue queries timed out after 90000ms"))]
               /\ UNCHANGED pending
          [] OTHER ->
               \E revFailed \in SUBSET needed :
                 LET response == [pages |-> BuildPages(urls, req[r].resolved, landingPageMap,
                                                       dateRange, revFailed),
                                  dateRange |-> dateRange,
                                  tagFilter |-> Prop(body, "tagFilter"),
                                  lastUpdated |-> now]
                 IN /\ req' = [req EXCEPT ![r] =
                                 [@ EXCEPT !.pc = "done", !.status = 200,
                                           !.payload = response,
                                           !.cacheWrites = @ + 1,
                                           !.calls = @ + 1 + Cardinality(needed)]]
                    /\ pending' = pending \cup
                         {CacheWrite(req[r].sess.shopId, req[r].key, response, r)}
  /\ UNCHANGED <<cache, nextId, now, ticks, inp, out>>

(* a write that creates the entry when there is none and otherwise leaves
   the stored entry as it is *)
CacheWriteDone_KeepExisting(w, ok) ==
  /\ w \in pending
  /\ pending' = pending \ {w}
  /\ LET rows == FindRows(w.shopId, w.queryKey)
     IN IF ~ok \/ rows # {} THEN UNCHANGED <<cache, nextId>>
        ELSE /\ cache' = cache \cup
                  {[id |-> nextId, shopId |-> w.shopId, queryKey |-> w.queryKey,
                    data |-> w.data, expiresAt |-> w.expiresAt, writer |-> w.writer]}
             /\ nextId' = nextId + 1
  /\ req' = [req EXCEPT ![w.writer].fault = IF ok THEN @ ELSE @ \cup {"write"}]
  /\ UNCHANGED <<now, ticks, inp, out>>

(* setCachedData, lines 197-215: the upsert settles; ok is FALSE when it
   throws (logged and swallowed) *)
CacheWriteDone(w, ok) ==
  /\ w \in pending
  /\ pending' = pending \ {w}
  /\ LET rows == FindRows(w.shopId, w.queryKey)
     IN IF ~ok THEN UNCHANGED <<cache, nextId>>
        ELSE IF rows = {}
        THEN /\ cache' = cache \cup
                  {[id |-> nextId, shopId |-> w.shopId, queryKey |-> w.queryKey,
                    data |-> w.data, expiresAt |-> w.expiresAt, writer |-> w.writer]}
             /\ nextId' = nextId + 1
        ELSE /\ cache' = (cache \ rows) \cup
                  {[row EXCEPT !.data = w.data, !.expiresAt = w.expiresAt,
                               !.writer = w.writer] : row \in rows}
             /\ UNCHANGED nextId
  /\ req' = [req EXCEPT ![w.writer].fault = IF ok THEN @ ELSE @ \cup {"write"}]
  /\ UNCHANGED <<now, ticks, inp, out>>

(* time passes: the first step takes the clock to the lifetime of an entry
   written at time 0, every later step adds a minute *)
Tick ==
  /\ ticks < MaxTicks
  /\ now' = IF now = 0 THEN CACHE_TTL_MINUTES ELSE now + 1
  /\ ticks' = ticks + 1
  /\ UNCHANGED <<req, cache, pending, nextId, inp, out>>

Init ==
  /\ req = [r \in Reqs |-> IdleReq]
  /\ cache = {}
  /\ pending = {}
  /\ nextId = 1
  /\ now = 0
  /\ ticks = 0
  /\ inp = <<>>
  /\ out = <<>>

Next ==
  \/ \E r \in Reqs : \E c \in CookieJar(r), ok \in BOOLEAN : Receive(r, c, ok)
  \/ \E r \in Reqs : \E b \in BodiesOf(r) : ParseBody(r, b)
  \/ \E r \in Reqs, ok \in BOOLEAN : CacheFind(r, ok)
  \/ \E r \in Reqs, ok \in BOOLEAN : CacheDelete(r, ok)
  \/ \E r \in Reqs, ok \in BOOLEAN : CacheClear(r, ok)
  \/ \E r \in Reqs, ok \in BOOLEAN : Resolve(r, ok)
  \/ \E r \in Reqs, o \in FetchOutcomes : FetchData(r, o)
  \/ \E w \in pending, ok \in BOOLEAN : CacheWriteDone(w, ok)
  \/ Tick

Spec == Init /\ [][Next]_vars

(***************************************************************************)
(* Properties of POST /analytics, checked under Spec.                      *)
(***************************************************************************)
Done(r) == req[r].pc = "done"

(* the request passed validation and computed its cache key *)
Validated(r) == req[r].key # NoKey

ShopOf(r) == req[r].sess.shopId

Refresh(r) == Truthy(Prop(req[r].body, "refresh"))

NoCacheAccess(r) ==
  req[r].cacheReads = 0 /\ req[r].cacheWrites = 0 /\ req[r].cacheClears = 0

(* C1: two validated requests of one tenant that differ in urls, dateRange or
   tagFilter have different cache keys, and a cache hit returns a response
   whose dateRange and tagFilter are the requested ones. *)
C1_KeySeparatesRequests ==
  /\ \A r1, r2 \in Reqs :
       (/\ Validated(r1) /\ Validated(r2) /\ ShopOf(r1) = ShopOf(r2)
        /\ CacheParams(req[r1].body) # CacheParams(req[r2].body))
       => req[r1].key # req[r2].key
  /\ \A r \in Reqs :
       (Done(r) /\ req[r].hit)
       => /\ req[r].payload.dateRange = Prop(req[r].body, "dateRange")
          /\ req[r].payload.tagFilter = Prop(req[r].body, "tagFilter")

(* r2 repeats, without refresh, the call r1 of the same tenant, after r1 has
   responded 200 *)
Repeats(r1, r2) ==
  /\ r1 # r2 /\ r1 \in req[r2].prior /\ req[r1].status = 200
  /\ Validated(r2) /\ ShopOf(r1) = ShopOf(r2)
  /\ req[r1].body = req[r2].body /\ ~Refresh(r2)

(* C2 as stated: a repeated call, made within the TTL after the first call has
   responded, is a cache hit with the first response's payload and no
   upstream call. *)
C2_RepeatIsHit ==
  \A r1, r2 \in Reqs :
    (/\ Repeats(r1, r2) /\ Done(r2)
     /\ now <= req[r1].payload.lastUpdated + CACHE_TTL_MINUTES)
    => /\ req[r2].hit
       /\ req[r2].payload = req[r1].payload
       /\ req[r2].calls = 0

(* C2 amended: a repeated call whose cache lookup succeeds and finds the
   entry written by the first call, before its expiresAt has passed, is a
   cache hit: it responds 200 with the first response's payload (lastUpdated
   included) and issues no upstream call. *)
C2_RepeatHitsStoredEntry ==
  \A r1, r2 \in Reqs :
    (/\ Repeats(r1, r2)
     /\ req[r2].seen.row /\ req[r2].seen.writer = r1 /\ ~req[r2].seen.stale)
    => /\ Done(r2) /\ req[r2].hit /\ req[r2].status = 200
       /\ req[r2].payload = req[r1].payload
       /\ req[r2].calls = 0

(* a repeated call was served from the entry of the first call at the very
   end of the entry's lifetime *)
C2_Witness ==
  \E r1, r2 \in Reqs :
    /\ Repeats(r1, r2) /\ req[r2].hit /\ req[r2].seen.writer = r1
    /\ req[r2].payload.lastUpdated = 0 /\ now = CACHE_TTL_MINUTES

(* C3 as stated: a refresh request never reads the cache, always calls
   upstream, and afterwards the entry of its key holds its response. *)
C3_RefreshOverwrites ==
  \A r \in Reqs :
    (Done(r) /\ Validated(r) /\ Refresh(r))
    => /\ req[r].cacheReads = 0
       /\ req[r].calls > 0
       /\ \E row \in FindRows(ShopOf(r), req[r].key) : row.data = req[r].payload

(* C3 amended: a validated refresh request never reads the cache; it clears
   the tenant's entries and calls upstream even when a valid entry of its key
   exists; it ends with 200 or 504; with 200 it has issued exactly one cache
   write, of its response under its key, and a cache entry written by it
   holds that response; with 504 it writes nothing. *)
C3_RefreshBypassesCache ==
  \A r \in Reqs :
    (Validated(r) /\ Refresh(r))
    => /\ req[r].cacheReads = 0 /\ ~req[r].hit /\ ~req[r].seen.row
       /\ Done(r) => /\ req[r].cacheClears = 1
                     /\ req[r].calls >= 1
                     /\ req[r].status \in {200, 504}
                     /\ req[r].cacheWrites = (IF req[r].status = 200 THEN 1 ELSE 0)
       /\ \A w \in pending \cup cache :
            w.writer = r => /\ req[r].status = 200
                            /\ w.shopId = ShopOf(r)
                            /\ w.queryKey = req[r].key
                            /\ w.data = req[r].payload

(* a refresh request found a valid entry of its key, recomputed, and its
   write replaced the entry *)
C3_Witness ==
  \E r \in Reqs :
    /\ Done(r) /\ Refresh(r) /\ req[r].hadEntry /\ req[r].status = 200
    /\ req[r].calls >= 1
    /\ \E row \in FindRows(ShopOf(r), req[r].key) :
         row.writer = r /\ row.data = req[r].payload

(* the body lacks urls or has none, or lacks dateRange, start or end *)
Malformed(body) ==
  \/ Prop(body, "urls").t = "undef"
  \/ (Prop(body, "urls").t = "arr" /\ Len(Prop(body, "urls").a) = 0)
  \/ Prop(body, "dateRange").t = "undef"
  \/ Prop(Prop(body, "dateRange"), "start").t = "undef"
  \/ Prop(Prop(body, "dateRange"), "end").t = "undef"

(* C4: an authenticated request with a malformed body is answered 400,
   without any cache access or upstream call. *)
C4_MalformedIs400 ==
  \A r \in Reqs :
    (Done(r) /\ req[r].sess.found /\ req[r].body.t = "obj" /\ Malformed(req[r].body))
    => /\ req[r].status = 400
       /\ NoCacheAccess(r)
       /\ req[r].calls = 0

StoredDomains == {s.domain : s \in ShopTable}

(* C5: a request without a session cookie, or whose cookie names no stored
   shop, is answered 401 once the session lookup returns: its body is never
   read, the cache is not read, written or cleared, nothing is called
   upstream. *)
C5_UnauthenticatedIs401 ==
  \A r \in Reqs :
    (/\ req[r].pc # "idle" /\ req[r].stage # "session"
     /\ (req[r].cookie = NoCookie \/ req[r].cookie \notin StoredDomains))
    => /\ Done(r)
       /\ req[r].status = 401
       /\ req[r].error = MsgNotAuthenticated
       /\ req[r].body = Undef
       /\ ~Validated(r)
       /\ NoCacheAccess(r)
       /\ req[r].calls = 0
       /\ \A w \in pending \cup cache : w.writer # r

(* a request with a cookie that names no stored shop has been answered *)
C5_Witness ==
  \E r \in Reqs :
    /\ Done(r) /\ req[r].cookie = "gone.myshopify.com" /\ req[r].status = 401

(* C6: a request that failed in the Resolve or FetchData stage is answered
   504 with the fixed message of that stage, never the text of the internal
   error, and has no payload and no cache write. *)
C6_StageFailureIs504 ==
  \A r \in Reqs :
    (req[r].stage \in {"resolve", "fetch"})
    => /\ Done(r)
       /\ req[r].status = 504
       /\ req[r].error = (IF req[r].stage = "resolve"
                          THEN MsgResolveFailed ELSE MsgUpstreamTimeout)
       /\ req[r].error # req[r].raw
       /\ req[r].payload = NoPayload
       /\ req[r].cacheWrites = 0

(* one request timed out resolving products, the other fetching data *)
C6_Witness ==
  \E r1, r2 \in Reqs :
    /\ req[r1].stage = "resolve" /\ req[r1].status = 504
    /\ req[r2].stage = "fetch" /\ req[r2].status = 504
    /\ req[r2].raw = "GraphQL revenue queries timed out after 90000ms"

(* the tag filter of a body as [tags, logic] *)
FilterOfBody(body) ==
  LET tf == Prop(body, "tagFilter")
  IN [tags |-> [i \in DOMAIN tf.f.tags.a |-> tf.f.tags.a[i].s],
      logic |-> tf.f.logic.s[1]]

(* an order with the given tag list satisfies the filter *)
SatisfiesFilter(tags, filter) ==
  LET has(t) == \E i \in DOMAIN tags : ToLowerCase(Trim(tags[i])) = ToLowerCase(Trim(t))
  IN IF filter.logic = "AND"
     THEN \A i \in DOMAIN filter.tags : has(filter.tags[i])
     ELSE \E i \in DOMAIN filter.tags : has(filter.tags[i])

(* C7: with an active tag filter only the orders satisfying it count towards
   a page's orderCount and totalRevenue; a product none of whose orders
   satisfies it gets orderCount 0 and totalRevenue 0. *)
C7_TagFilterRestrictsOrders ==
  \A r \in Reqs :
    (/\ Done(r) /\ req[r].status = 200 /\ ~req[r].hit
     /\ Truthy(Prop(req[r].body, "tagFilter")))
    => \A i \in DOMAIN req[r].payload.pages :
         LET page == req[r].payload.pages[i]
             orders == OrdersWorld(ProductOf(page.url).id, Prop(req[r].body, "dateRange"))
             counted == {j \in DOMAIN orders :
                           SatisfiesFilter(orders[j].tags, FilterOfBody(req[r].body))}
         IN /\ page.orderCount <= Cardinality(counted)
            /\ counted = {} => page.orderCount = 0 /\ page.totalRevenue = 0

(***************************************************************************)
(* filterOrdersByTags on its own: the inputs are drawn at the start, the   *)
(* single step applies the function.  Order tag strings are built from     *)
(* TagTokens; the orchestrator's variables stay as constructed.            *)
(***************************************************************************)
MaxTagLen == 3

MaxFilterTags == 2

MaxFilterOrders == 1

TagTokens == {"vip", "Sale", " ", ","}

TagStrings == UNION {[1..k -> TagTokens] : k \in 0..MaxTagLen}

FilterTagChoices == {<<"vip">>, <<"sale">>, <<"VIP">>, <<" ", "vip">>}

FilterInputs ==
  {[has |-> FALSE, tagFilter |-> [tags |-> <<>>, logic |-> "OR"]]}
  \cup {[has |-> TRUE, tagFilter |-> [tags |-> t, logic |-> l]] :
          t \in UNION {[1..k -> FilterTagChoices] : k \in 0..MaxFilterTags},
          l \in {"AND", "OR"}}

OrderInputs ==
  UNION {[1..k -> [tags : TagStrings]] : k \in 1..MaxFilterOrders}

Idle ==
  /\ req = [r \in Reqs |-> IdleReq]
  /\ cache = {}
  /\ pending = {}
  /\ nextId = 1
  /\ now = 0
  /\ ticks = 0

InitFilter ==
  /\ Idle
  /\ \E orders \in OrderInputs, f \in FilterInputs :
       inp = [fn |-> "filterOrdersByTags", orders |-> orders,
              hasFilter |-> f.has, tagFilter |-> f.tagFilter]
  /\ out = <<>>

ApplyFilter ==
  /\ inp.fn = "filterOrdersByTags"
  /\ out = <<>>
  /\ out' = <<filterOrdersByTags(inp.orders, inp.hasFilter, inp.tagFilter)>>
  /\ UNCHANGED <<orchVars, inp>>

NextFilter == ApplyFilter

SpecFilter == InitFilter /\ [][NextFilter]_vars

(* a tag as it is compared according to the contract: trimmed, case folded *)
Normalized(tag) == ToLowerCase(Trim(tag))

(* the tag set of an order: the non-blank elements of its tag string *)
TagSetOf(order) ==
  {Normalized(t) : t \in Range(SplitComma(order.tags))} \ {<<>>}

(* the contract's match of one order against a filter *)
tagFilterMatches(order, tagFilter) ==
  IF tagFilter.logic = "AND"
  THEN \A i \in DOMAIN tagFilter.tags : Normalized(tagFilter.tags[i]) \in TagSetOf(order)
  ELSE \E i \in DOMAIN tagFilter.tags : Normalized(tagFilter.tags[i]) \in TagSetOf(order)

(* C8: with a non-empty filter tag set, filterOrdersByTags keeps exactly the
   orders that carry every filter tag (AND) or at least one filter tag (OR),
   tags being compared trimmed and without regard to case. *)
C8_FilterKeepsIffTagsPresent ==
  (out # <<>> /\ inp.hasFilter /\ inp.tagFilter.tags # <<>>)
  => LET Matches(o) == tagFilterMatches(o, inp.tagFilter)
     IN out[1] = SelectSeq(inp.orders, Matches)

(***************************************************************************)
(* The order-fetching pipelines on their own.  An upstream order is        *)
(* [amount (thousandths), tags (list of tag strings), product (the id of   *)
(* the product it contains; it landed on that product's page)].  The page  *)
(* measured is UrlA, the page of product 1.                                *)
(***************************************************************************)
MaxUpstream == 2

RebillMixedCase == <<"Subscription", " ", "Recurring", " ", "Order">>

RebillPadded == <<" ", "SUBSCRIPTION", " ", "RECURRING", " ", "ORDER", " ">>

UpstreamTagLists ==
  {<<>>, << <<"vip">> >>, <<RebillMixedCase>>, << <<"vip">>, RebillPadded >>}

UpstreamOrders ==
  [amount : {100000, 49990}, tags : UpstreamTagLists, product : {1, 2}]

UpstreamLists == UNION {[1..k -> UpstreamOrders] : k \in 0..MaxUpstream}

LandingSiteOf(product) == IF product = 1 THEN UrlA ELSE UrlB

(* the REST rendering of a tag list: the tags joined by ", " *)
RECURSIVE JoinTags(_)
JoinTags(tags) ==
  IF tags = <<>> THEN <<>>
  ELSE IF Len(tags) = 1 THEN tags[1]
       ELSE tags[1] \o <<",", " ">> \o JoinTags(Tail(tags))

(* fetchOrders: every order of the date range with the fields the request
   names: total_price, tags and landing_site among them, line_items not *)
fetchOrders(upstream) ==
  [i \in DOMAIN upstream |->
     [total_price |-> upstream[i].amount,
      tags |-> JoinTags(upstream[i].tags),
      landing_site |-> LandingSiteOf(upstream[i].product)]]

IsPrefix(p, s) == Len(p) <= Len(s) /\ SubSeq(s, 1, Len(p)) = p

(* attributeOrdersToUrl, method 'landing_page' *)
attributeOrdersToUrl(orders, url) ==
  LET normalizedPath == normalizeUrlPath(url)
      Attributed(order) ==
        /\ order.landing_site # <<>>
        /\ IsPrefix(normalizedPath, normalizeUrlPath(order.landing_site))
  IN SelectSeq(orders, Attributed)

(* calculateComparison for one url: tag filter, attribution, then the
   count and the rounded sum of the attributed orders *)
calculateComparison(url, orders, hasFilter, tagFilter) ==
  LET filteredOrders == filterOrdersByTags(orders, hasFilter, tagFilter)
      attributedOrders == attributeOrdersToUrl(filteredOrders, url)
  IN [orderCount |-> Len(attributedOrders),
      totalRevenue |-> Round2(SumSeq([i \in DOMAIN attributedOrders |->
                                        attributedOrders[i].total_price]), 1000)]

(* getProductOrderData: orders without line_items are skipped *)
getProductOrderData(orders, productId) ==
  LET Matching(order) ==
        /\ "line_items" \in DOMAIN order
        /\ \E i \in DOMAIN order.line_items : order.line_items[i].product_id = productId
      matchingOrders == SelectSeq(orders, Matching)
  IN [matchingOrders |-> matchingOrders,
      totalRevenue |-> SumSeq([i \in DOMAIN matchingOrders |->
                                 matchingOrders[i].total_price])]

(* the bulk-order route: fetchOrders, filterOrdersByTags, getProductOrderData *)
BulkPage(upstream, productId, hasFilter, tagFilter) ==
  LET filteredOrders == filterOrdersByTags(fetchOrders(upstream), hasFilter, tagFilter)
      data == getProductOrderData(filteredOrders, productId)
  IN [orderCount |-> Len(data.matchingOrders),
      totalRevenue |-> Round2(data.totalRevenue, 1000)]

(* the order search of the Admin API: the orders containing the product;
   a -tag: term drops the tagged orders when the search applies it *)
OrderSearch(upstream, productId, negatedTag, applied) ==
  LET Found(o) ==
        /\ o.product = productId
        /\ ~(negatedTag /\ applied /\ IsRebill(o.tags))
  IN SelectSeq(upstream, Found)

(* fetchOrdersForProduct as in the earlier library: the query carries
   -tag:'Subscription Recurring Order', every edge received is counted;
   fetched is the number of edges received before a request failed *)
fetchOrdersForProduct_query(upstream, productId, applied, fetched) ==
  LET found == OrderSearch(upstream, productId, TRUE, applied)
      n == IF fetched < Len(found) THEN fetched ELSE Len(found)
      edges == SubSeq(found, 1, n)
  IN [orderCount |-> Len(edges),
      totalRevenue |-> Round2(SumSeq([i \in DOMAIN edges |-> edges[i].amount]), 1000)]

(* fetchOrdersForProduct (src/lib/shopify.ts): no tag term in the query,
   every edge received is checked against REBILL_TAG *)
fetchOrdersForProduct(upstream, productId, fetched) ==
  LET found == OrderSearch(upstream, productId, FALSE, FALSE)
      n == IF fetched < Len(found) THEN fetched ELSE Len(found)
      edges == DropRebills(SubSeq(found, 1, n))
  IN [orderCount |-> Len(edges),
      totalRevenue |-> Round2(SumSeq([i \in DOMAIN edges |-> edges[i].amount]), 1000)]

NoFilter == [tags |-> <<>>, logic |-> "OR"]

InitRebill ==
  /\ Idle
  /\ \E upstream \in UpstreamLists :
       \/ \E fn \in {"calculateComparison", "bulk"} :
            inp = [fn |-> fn, upstream |-> upstream, applied |-> FALSE, fetched |-> 0]
       \/ \E applied \in BOOLEAN, fetched \in 0..Len(upstream) :
            inp = [fn |-> "fetchOrdersForProduct_query", upstream |-> upstream,
                   applied |-> applied, fetched |-> fetched]
       \/ \E fetched \in 0..Len(upstream) :
            inp = [fn |-> "fetchOrdersForProduct", upstream |-> upstream,
                   applied |-> FALSE, fetched |-> fetched]
  /\ out = <<>>

RunComparison ==
  /\ inp.fn = "calculateComparison"
  /\ out = <<>>
  /\ out' = <<calculateComparison(UrlA, fetchOrders(inp.upstream), FALSE, NoFilter)>>
  /\ UNCHANGED <<orchVars, inp>>

RunBulk ==
  /\ inp.fn = "bulk"
  /\ out = <<>>
  /\ out' = <<BulkPage(inp.upstream, 1, FALSE, NoFilter)>>
  /\ UNCHANGED <<orchVars, inp>>

RunProductQuery ==
  /\ inp.fn = "fetchOrdersForProduct_query"
  /\ out = <<>>
  /\ out' = <<fetchOrdersForProduct_query(inp.upstream, 1, inp.applied, inp.fetched)>>
  /\ UNCHANGED <<orchVars, inp>>

RunProduct ==
  /\ inp.fn = "fetchOrdersForProduct"
  /\ out = <<>>
  /\ out' = <<fetchOrdersForProduct(inp.upstream, 1, inp.fetched)>>
  /\ UNCHANGED <<orchVars, inp>>

NextRebill ==
  \/ RunComparison
  \/ RunBulk
  \/ RunProductQuery
  \/ RunProduct

SpecRebill == InitRebill /\ [][NextRebill]_vars

(* the upstream orders of product 1 that carry no rebill tag *)
NonRebillOrders ==
  LET Eligible(o) ==
        /\ o.product = 1
        /\ ~\E i \in DOMAIN o.tags : ToLowerCase(Trim(o.tags[i])) = REBILL_TAG
  IN SelectSeq(inp.upstream, Eligible)

(* C9: in every pipeline an order carrying the rebill tag (any case,
   surrounding whitespace) adds nothing to orderCount or totalRevenue: both
   stay within what the orders without the tag account for. *)
C9_RebillsNeverCounted ==
  out # <<>>
  => /\ out[1].orderCount <= Len(NonRebillOrders)
     /\ 10 * out[1].totalRevenue
          <= SumSeq([i \in DOMAIN NonRebillOrders |-> NonRebillOrders[i].amount])

(***************************************************************************)
(* calculatePageMetrics on its own.  Rates are in hundredths of a percent. *)
(***************************************************************************)
MaxSessions == 32

MaxOrderCount == 6

InitMetrics ==
  /\ Idle
  /\ \E sessions \in 0..MaxSessions, orderCount \in 0..MaxOrderCount,
        productRevenue \in {0, 149990, 100045} :
       inp = [fn |-> "calculatePageMetrics", sessions |-> sessions,
              orderCount |-> orderCount, productRevenue |-> productRevenue]
  /\ out = <<>>

ComputeMetrics ==
  /\ inp.fn = "calculatePageMetrics"
  /\ out = <<>>
  /\ out' = <<calculatePageMetrics(UrlA, "Product A", inp.sessions,
                                   inp.productRevenue, inp.orderCount)>>
  /\ UNCHANGED <<orchVars, inp>>

NextMetrics == ComputeMetrics

SpecMetrics == InitMetrics /\ [][NextMetrics]_vars

(* C10 as stated: conversionRate is exactly 100 * orderCount / sessions when
   sessions > 0, and 0 when sessions = 0. *)
C10_ConversionRateExact ==
  out # <<>>
  => IF inp.sessions > 0
     THEN out[1].conversionRate * inp.sessions = 10000 * inp.orderCount
     ELSE out[1].conversionRate = 0

(* C10: conversionRate is 100 * orderCount / sessions rounded to two
   decimals, halves upwards, when sessions > 0 (so within 0.005 of the exact
   quotient), and 0 when sessions = 0 whatever orderCount is. *)
C10_ConversionRateRounded ==
  out # <<>>
  => IF inp.sessions > 0
     THEN LET twiceError == 2 * (out[1].conversionRate * inp.sessions
                                 - 10000 * inp.orderCount)
          IN -inp.sessions < twiceError /\ twiceError <= inp.sessions
     ELSE out[1].conversionRate = 0

(* two orders over three sessions: 66.666... is reported as 66.67 *)
C10_Witness ==
  /\ out # <<>>
  /\ inp.sessions = 3 /\ inp.orderCount = 2
  /\ out[1].conversionRate = 6667

(* C11: aov is 0 when orderCount = 0 and otherwise the revenue input divided
   by orderCount, rounded to two decimals (halves upwards); revenuePerVisitor
   is 0 when sessions = 0 and otherwise the revenue input divided by
   sessions, rounded the same way.  Both are taken from the revenue as
   given, not from the rounded totalRevenue.  Money results are in cents,
   the revenue input in thousandths. *)
C11_AveragesRoundedFromInput ==
  out # <<>>
  => LET m == out[1]
         aovError == 2 * (10 * inp.orderCount * m.aov - inp.productRevenue)
         rpvError == 2 * (10 * inp.sessions * m.revenuePerVisitor - inp.productRevenue)
     IN /\ IF inp.orderCount > 0
           THEN -10 * inp.orderCount < aovError /\ aovError <= 10 * inp.orderCount
           ELSE m.aov = 0
        /\ IF inp.sessions > 0
           THEN -10 * inp.sessions < rpvError /\ rpvError <= 10 * inp.sessions
           ELSE m.revenuePerVisitor = 0

(* 100.045 over six orders and no session: aov 16.67 (from the rounded
   100.05 it would be 16.68), revenuePerVisitor 0 *)
C11_Witness ==
  /\ out # <<>>
  /\ inp.productRevenue = 100045 /\ inp.orderCount = 6 /\ inp.sessions = 0
  /\ out[1].aov = 1667 /\ out[1].revenuePerVisitor = 0

(***************************************************************************)
(* fetchSessionsByLandingPage on its own.  A path is a sequence of string  *)
(* pieces, so that /products/foobar is /products/foo followed by "bar".    *)
(* A row of the sessions table is [landing_page_path, sessions].           *)
(***************************************************************************)
MaxPaths == 2

MaxRows == 2

PathFoo == <<"/", "products", "/", "foo">>

LandingPaths ==
  {PathFoo, PathFoo \o <<"/">>, PathFoo \o <<"/", "/">>, PathFoo \o <<"bar">>,
   <<"/", "products", "/", "Foo">>, <<"/", "products">>, <<"/">>}

(* a row without landing_page_path has the empty path *)
SessionRows == [landing_page_path : LandingPaths \cup {<<>>}, sessions : {3, 5}]

(* a row path that merely starts with the target *)
PathMatches_StartsWith(landingPath, normalizedTarget) ==
  /\ Len(normalizedTarget) <= Len(landingPath)
  /\ SubSeq(landingPath, 1, Len(normalizedTarget)) = normalizedTarget

(* the test of lines 340-344 on the lower-cased row path and target *)
PathMatches(landingPath, normalizedTarget) ==
  \/ landingPath = normalizedTarget
  \/ landingPath = normalizedTarget \o <<"/">>
  \/ landingPath \o <<"/">> = normalizedTarget

(* the sessions added to one target path by the rows, one addition per
   occurrence of the path in urlPaths *)
RECURSIVE SessionsFor(_, _, _)
SessionsFor(rows, urlPaths, targetPath) ==
  IF rows = <<>> THEN 0
  ELSE (IF PathMatches(ToLowerCase(Head(rows).landing_page_path), ToLowerCase(targetPath))
        THEN Head(rows).sessions
               * Cardinality({j \in DOMAIN urlPaths : urlPaths[j] = targetPath})
        ELSE 0)
       + SessionsFor(Tail(rows), urlPaths, targetPath)

(* fetchSessionsByLandingPage(urlPaths, dateRange) against the rows the
   query returns; ok is FALSE when the request fails, throws or reports
   errors.  matched records the pairs of the "Matched path" log line. *)
fetchSessionsByLandingPage(urlPaths, rows, ok) ==
  [sessionMap |-> [t \in Range(urlPaths) |->
                     IF ok THEN SessionsFor(rows, urlPaths, t) ELSE 0],
   matched |-> IF ok
               THEN {<<i, urlPaths[j]>> : i \in DOMAIN rows, j \in DOMAIN urlPaths}
                    \cap {pr \in (DOMAIN rows) \X Range(urlPaths) :
                            PathMatches(ToLowerCase(rows[pr[1]].landing_page_path),
                                        ToLowerCase(pr[2]))}
               ELSE {}]

InitSessions ==
  /\ Idle
  /\ \E urlPaths \in UNION {[1..k -> LandingPaths] : k \in 1..MaxPaths},
        rows \in UNION {[1..k -> SessionRows] : k \in 0..MaxRows},
        ok \in BOOLEAN :
       inp = [fn |-> "fetchSessionsByLandingPage", urlPaths |-> urlPaths,
              rows |-> rows, ok |-> ok]
  /\ out = <<>>

MatchSessions ==
  /\ inp.fn = "fetchSessionsByLandingPage"
  /\ out = <<>>
  /\ out' = <<fetchSessionsByLandingPage(inp.urlPaths, inp.rows, inp.ok)>>
  /\ UNCHANGED <<orchVars, inp>>

NextSessions == MatchSessions

SpecSessions == InitSessions /\ [][NextSessions]_vars

(* two paths are equal up to case, or one is the other plus one final "/" *)
SameUpToOneSlash(a, b) ==
  LET la == ToLowerCase(a)
      lb == ToLowerCase(b)
      short == IF Len(la) <= Len(lb) THEN la ELSE lb
      long == IF Len(la) <= Len(lb) THEN lb ELSE la
  IN /\ Len(long) - Len(short) <= 1
     /\ \A i \in DOMAIN short : short[i] = long[i]
     /\ Len(long) > Len(short) => long[Len(long)] = "/"

(* C12: when the query succeeds, a row is matched to a requested path iff
   the two are equal without regard to case or differ by exactly one
   trailing slash; a longer path such as /products/foobar never matches
   /products/foo. *)
C12_MatchUpToOneTrailingSlash ==
  (out # <<>> /\ inp.ok)
  => \A i \in DOMAIN inp.rows, j \in DOMAIN inp.urlPaths :
       <<i, inp.urlPaths[j]>> \in out[1].matched
       <=> SameUpToOneSlash(inp.rows[i].landing_page_path, inp.urlPaths[j])

(* /products/foo was asked for; the row /products/Foo/ was matched and the
   row /products/foobar was not *)
C12_Witness ==
  /\ out # <<>> /\ inp.ok
  /\ inp.urlPaths = <<PathFoo>>
  /\ Len(inp.rows) = 2
  /\ inp.rows[1].landing_page_path = PathFoo \o <<"bar">>
  /\ inp.rows[2].landing_page_path = <<"/", "products", "/", "foo", "/">>
  /\ out[1].matched = {<<2, PathFoo>>}
  /\ out[1].sessionMap[PathFoo] = inp.rows[2].sessions

(***************************************************************************)
(* Claims about the pages of a computed response (specification Spec).     *)
(***************************************************************************)
ZeroMetrics(page) ==
  /\ page.sessions = 0 /\ page.totalRevenue = 0 /\ page.revenuePerVisitor = 0
  /\ page.conversionRate = 0 /\ page.aov = 0 /\ page.orderCount = 0

(* the entries a resolved URL can get when it is the only URL requested *)
PagesWhenAlone(url, dateRange) ==
  {BuildPages(<<url>>, {url},
              fetchLandingPageData(<<normalizeUrlPath(url)>>, dateRange, degraded),
              dateRange, revFailed)[1] :
     degraded \in BOOLEAN, revFailed \in SUBSET {1}}

(* C13: a 200 response has one entry per requested URL, in request order; in
   a computed response the entry of a URL without a resolved product is all
   zero, and the entry of a resolved URL is one it can get when requested
   alone. *)
C13_OnePagePerUrl ==
  \A r \in Reqs :
    (Done(r) /\ req[r].status = 200)
    => LET urls == UrlsOf(req[r].body)
           pages == req[r].payload.pages
       IN /\ Len(pages) = Len(urls)
          /\ \A i \in DOMAIN urls : pages[i].url = urls[i]
          /\ ~req[r].hit
             => \A i \in DOMAIN urls :
                  IF urls[i] \in req[r].resolved
                  THEN pages[i] \in PagesWhenAlone(urls[i], Prop(req[r].body, "dateRange"))
                  ELSE ZeroMetrics(pages[i])

(* three URLs were requested: an unknown product, product a and a page
   without a handle; the response is 200 and only product a has metrics *)
C13_Witness ==
  \E r \in Reqs :
    /\ Done(r) /\ req[r].status = 200 /\ ~req[r].hit
    /\ UrlsOf(req[r].body) = <<UrlGone, UrlA, UrlPage>>
    /\ req[r].resolved = {UrlA}
    /\ ZeroMetrics(req[r].payload.pages[1])
    /\ req[r].payload.pages[2].sessions = 100
    /\ req[r].payload.pages[2].orderCount = 5
    /\ ZeroMetrics(req[r].payload.pages[3])

(* the pages of a computed response are those of a cache miss *)
PagesAsComputed(r) ==
  LET urls == UrlsOf(req[r].body)
      pages == req[r].payload.pages
  IN /\ Len(pages) = Len(urls)
     /\ \A i \in DOMAIN urls :
          IF urls[i] \in req[r].resolved
          THEN pages[i] \in PagesWhenAlone(urls[i], Prop(req[r].body, "dateRange"))
          ELSE ZeroMetrics(pages[i])

(* C14: a request one of whose cache operations failed (the read, the lazy
   delete, the clear or the write) proceeds like a cache miss: it is not
   served from the cache and it ends with 200 and the computed pages, or
   with the 504 of an upstream stage; no cache failure becomes an error
   response. *)
C14_CacheFaultsInvisible ==
  \A r \in Reqs :
    req[r].fault # {}
    => /\ ~req[r].hit
       /\ req[r].stage \in {"", "resolve", "fetch"}
       /\ Done(r)
          => \/ req[r].status = 200 /\ req[r].stage = "" /\ PagesAsComputed(r)
             \/ req[r].status = 504 /\ req[r].stage \in {"resolve", "fetch"}

(* a request whose cache read failed while a valid entry of its key existed
   and whose own cache write failed as well answered 200 with the metrics
   of product a *)
C14_Witness ==
  \E r \in Reqs :
    /\ Done(r) /\ req[r].status = 200
    /\ req[r].fault = {"read", "write"}
    /\ req[r].payload.pages[1].sessions = 100
    /\ req[r].payload.pages[1].orderCount = 5

(* C15: the step in which a refresh request of tenant T clears the cache
   leaves no entry of T, whatever its key, and leaves the entries of every
   other tenant as they were; when the deleteMany call fails the cache is
   unchanged. *)
C15_RefreshClearsOwnTenantOnly ==
  [][\A r \in Reqs :
       (req[r].pc = "cacheClear" /\ req'[r].pc = "resolve")
       => /\ {row \in cache' : row.shopId # ShopOf(r)}
               = {row \in cache : row.shopId # ShopOf(r)}
          /\ IF "clear" \in req'[r].fault
             THEN cache' = cache
             ELSE {row \in cache' : row.shopId = ShopOf(r)} = {}]_vars

(* the first request stored its response under the key of two URLs; the
   second, a refresh of the same tenant for another key, cleared it away *)
C15_Witness ==
  \E r1, r2 \in Reqs :
    /\ r1 # r2 /\ ShopOf(r1) = ShopOf(r2) /\ Validated(r1) /\ Validated(r2)
    /\ req[r1].key # req[r2].key
    /\ Done(r1) /\ req[r1].status = 200 /\ req[r1].cacheWrites = 1
    /\ "write" \notin req[r1].fault
    /\ \A w \in pending \cup cache : w.writer # r1
    /\ Refresh(r2) /\ req[r2].cacheClears = 1 /\ "clear" \notin req[r2].fault
    /\ req[r2].pc = "resolve"

(***************************************************************************)
(* GET /products (src/app/api/shopify/products/route.ts).  The catalog is  *)
(* a sequence of pages; page k holds one product, with handle k and the    *)
(* title inp.catalog[k], and is requested with page_info = k (the first    *)
(* page also without page_info).  A Link header is a sequence of entries   *)
(* [page_info, rel] in the order the upstream writes them.  out holds the  *)
(* handler's position, its pageInfo variable (0 for null), the products    *)
(* collected, the pages requested so far and the response.                 *)
(***************************************************************************)
MaxPages == 3

MaxFetches == 5

(* titles in the order of localeCompare *)
Titles == <<"Alpha", "Beta">>

TitleRank(title) == CHOOSE i \in DOMAIN Titles : Titles[i] = title

(* the orders in which a header lists its relations *)
LinkStyles == {"previous-next", "next-previous", "next"}

(* the Link header of the response for page k *)
LinkHeaderOf(catalog, style, k) ==
  LET previous == IF k > 1 /\ style # "next"
                  THEN <<[page_info |-> k - 1, rel |-> "previous"]>> ELSE <<>>
      next == IF k < Len(catalog) THEN <<[page_info |-> k + 1, rel |-> "next"]>> ELSE <<>>
  IN IF style = "previous-next" THEN previous \o next ELSE next \o previous

(* linkHeader.includes('rel="next"') *)
HasRelNext(linkHeader) == \E i \in DOMAIN linkHeader : linkHeader[i].rel = "next"

(* linkHeader.match on the pattern page_info=...: the first page_info of the
   header, whatever its relation *)
FirstPageInfo(linkHeader) == linkHeader[1].page_info

(* products.sort((a, b) => a.title.localeCompare(b.title)): a stable sort *)
RECURSIVE InsertByTitle(_, _)
InsertByTitle(sorted, product) ==
  IF sorted = <<>> THEN <<product>>
  ELSE IF TitleRank(product.title) < TitleRank(Head(sorted).title)
       THEN <<product>> \o sorted
       ELSE <<Head(sorted)>> \o InsertByTitle(Tail(sorted), product)

RECURSIVE SortByTitle(_)
SortByTitle(products) ==
  IF products = <<>> THEN <<>>
  ELSE InsertByTitle(SortByTitle(SubSeq(products, 1, Len(products) - 1)),
                     products[Len(products)])

InitProducts ==
  /\ Idle
  /\ \E catalog \in UNION {[1..n -> Range(Titles)] : n \in 1..MaxPages},
        style \in LinkStyles, authenticated \in BOOLEAN :
       \E failAt \in 0..Len(catalog) :
         inp = [fn |-> "GET /products", catalog |-> catalog, style |-> style,
                authenticated |-> authenticated, failAt |-> failAt]
  /\ out = [pc |-> "start", pageInfo |-> 0, products |-> <<>>, requests |-> <<>>,
            status |-> 0]

(* lines 9-18: the session check *)
ProductsSession ==
  /\ inp.fn = "GET /products"
  /\ out.pc = "start"
  /\ out' = IF inp.authenticated
            THEN [out EXCEPT !.pc = "loop"]
            ELSE [out EXCEPT !.pc = "done", !.status = 401]
  /\ UNCHANGED <<orchVars, inp>>

(* lines 21-63: one iteration of the pagination loop; a response that is
   not ok throws and is answered 500 (lines 73-78) *)
FetchPage ==
  /\ inp.fn = "GET /products"
  /\ out.pc = "loop"
  /\ Len(out.requests) < MaxFetches
  /\ LET k == IF out.pageInfo = 0 THEN 1 ELSE out.pageInfo
         linkHeader == LinkHeaderOf(inp.catalog, inp.style, k)
         collected == Append(out.products, [title |-> inp.catalog[k], handle |-> k])
     IN out' = IF k = inp.failAt
               THEN [out EXCEPT !.pc = "done", !.status = 500, !.products = <<>>,
                                !.requests = Append(@, k)]
               ELSE IF HasRelNext(linkHeader)
               THEN [out EXCEPT !.pageInfo = FirstPageInfo(linkHeader),
                                !.products = collected,
                                !.requests = Append(@, k)]
               ELSE [out EXCEPT !.pc = "respond", !.products = collected,
                                !.requests = Append(@, k)]
  /\ UNCHANGED <<orchVars, inp>>

(* lines 65-72: the sort and the response *)
ProductsRespond ==
  /\ inp.fn = "GET /products"
  /\ out.pc = "respond"
  /\ out' = [out EXCEPT !.pc = "done", !.status = 200,
                        !.products = SortByTitle(out.products)]
  /\ UNCHANGED <<orchVars, inp>>

NextProducts ==
  \/ ProductsSession
  \/ FetchPage
  \/ ProductsRespond

SpecProducts == InitProducts /\ [][NextProducts]_vars

(* C16: whatever relations the Link headers carry, no page of the catalog is
   requested twice, and a 200 response lists every product exactly once,
   sorted by title. *)
C16_EachPageOnce ==
  inp.authenticated
  => /\ \A i, j \in DOMAIN out.requests : out.requests[i] = out.requests[j] => i = j
     /\ (out.pc = "done" /\ out.status = 200)
        => /\ Len(out.products) = Len(inp.catalog)
           /\ \A k \in DOMAIN inp.catalog :
                \E i \in DOMAIN out.products :
                  out.products[i] = [title |-> inp.catalog[k], handle |-> k]
           /\ \A i, j \in DOMAIN out.products :
                i < j => TitleRank(out.products[i].title) <= TitleRank(out.products[j].title)

(***************************************************************************)
(* GET /auth/callback and verifyHmac (src/app/dashboard/page.tsx).  A      *)
(* query is a sequence of [key, value] pairs in the order of the URL; a    *)
(* hex digest is a sequence of hex digits 0..15; hmac <<>> stands for a    *)
(* missing or empty parameter.  out holds the handler's position, the      *)
(* response status and what the handler has done so far.                   *)
(***************************************************************************)
(* the number of hex characters of a SHA-256 digest *)
DigestHexLength == 64

QueryKeys == <<"code", "shop", "timestamp">>

(* a[0].localeCompare(b[0]) on the keys of the model *)
KeyRank(key) == CHOOSE i \in DOMAIN QueryKeys : QueryKeys[i] = key

RECURSIVE InsertByKey(_, _)
InsertByKey(sorted, entry) ==
  IF sorted = <<>> THEN <<entry>>
  ELSE IF KeyRank(entry.key) < KeyRank(Head(sorted).key)
       THEN <<entry>> \o sorted
       ELSE <<Head(sorted)>> \o InsertByKey(Tail(sorted), entry)

RECURSIVE SortByKey(_)
SortByKey(entries) ==
  IF entries = <<>> THEN <<>>
  ELSE InsertByKey(SortByKey(SubSeq(entries, 1, Len(entries) - 1)),
                   entries[Len(entries)])

(* entries.map(([key, value]) => key=value).join('&') *)
RECURSIVE JoinEntries(_)
JoinEntries(entries) ==
  IF entries = <<>> THEN <<>>
  ELSE IF Len(entries) = 1 THEN <<entries[1].key, "=", entries[1].value>>
       ELSE <<entries[1].key, "=", entries[1].value, "&">> \o JoinEntries(Tail(entries))

MessageTokens ==
  <<"code", "shop", "timestamp", "=", "&", "one.myshopify.com", "abc", "1700000000">>

TokenCode(t) == CHOOSE i \in DOMAIN MessageTokens : MessageTokens[i] = t

MessageCode(message) == SumSeq([i \in DOMAIN message |-> i * TokenCode(message[i])])

(* crypto.createHmac('sha256', secret).update(message).digest('hex'): a
   digest of fixed length determined by the secret and the message *)
HmacSha256Hex(secret, message) ==
  [i \in 1..DigestHexLength |-> ((MessageCode(message) + secret) * (i + 7) + i) % 16]

(* crypto.timingSafeEqual on the two buffers: it throws when their lengths
   differ *)
timingSafeEqual(a, b) ==
  IF Len(a) # Len(b) THEN "RangeError" ELSE IF a = b THEN "true" ELSE "false"

(* verifyHmac(params); secret 0 stands for an unset SHOPIFY_API_SECRET *)
verifyHmac(query, hmac, secret) ==
  IF secret = 0 \/ hmac = <<>> THEN "false"
  ELSE timingSafeEqual(HmacSha256Hex(secret, JoinEntries(SortByKey(query))), hmac)

ApiSecret == 5

Param(query, key) ==
  IF \E i \in DOMAIN query : query[i].key = key
  THEN (CHOOSE e \in Range(query) : e.key = key).value
  ELSE ""

CallbackQueries ==
  LET shop == [key |-> "shop", value |-> "one.myshopify.com"]
      code == [key |-> "code", value |-> "abc"]
      timestamp == [key |-> "timestamp", value |-> "1700000000"]
  IN {<<shop, code>>, <<code, shop>>, <<shop, code, timestamp>>,
      <<timestamp, shop, code>>, <<shop>>, <<code, timestamp>>}

(* the hmac values a caller supplies for a query: none, the digest, the
   digest with one digit changed, a prefix, the digest with a digit added *)
SuppliedHmacs(query) ==
  LET digest == HmacSha256Hex(ApiSecret, JoinEntries(SortByKey(query)))
  IN {<<>>, digest,
      [digest EXCEPT ![1] = (@ + 1) % 16],
      SubSeq(digest, 1, 8),
      Append(digest, 0)}

InitCallback ==
  /\ Idle
  /\ \E query \in CallbackQueries, secret \in {0, ApiSecret} :
       \E hmac \in SuppliedHmacs(query) :
         inp = [fn |-> "GET /auth/callback", query |-> query, hmac |-> hmac,
                secret |-> secret]
  /\ out = [pc |-> "start", status |-> 0, exchanges |-> 0, shopWrites |-> 0,
            cookies |-> 0]

(* lines 269-281: the parameter check and the signature check; an exception
   of verifyHmac is outside the try block and leaves the handler, which the
   framework answers with 500 *)
CallbackVerify ==
  /\ inp.fn = "GET /auth/callback"
  /\ out.pc = "start"
  /\ LET verified == verifyHmac(inp.query, inp.hmac, inp.secret)
     IN out' = IF Param(inp.query, "shop") = "" \/ Param(inp.query, "code") = ""
                  \/ inp.hmac = <<>>
               THEN [out EXCEPT !.pc = "done", !.status = 400]
               ELSE IF verified = "RangeError"
               THEN [out EXCEPT !.pc = "done", !.status = 500]
               ELSE IF verified = "false"
               THEN [out EXCEPT !.pc = "done", !.status = 403]
               ELSE [out EXCEPT !.pc = "exchange"]
  /\ UNCHANGED <<orchVars, inp>>

(* line 285: exchangeCodeForToken; a failure is answered 500 (312-315) *)
CallbackExchange(ok) ==
  /\ inp.fn = "GET /auth/callback"
  /\ out.pc = "exchange"
  /\ out' = IF ok THEN [out EXCEPT !.pc = "save", !.exchanges = @ + 1]
            ELSE [out EXCEPT !.pc = "done", !.status = 500, !.exchanges = @ + 1]
  /\ UNCHANGED <<orchVars, inp>>

(* lines 287-311: the timezone (with its default), the shop upsert, the
   session cookie and the redirect *)
CallbackSave(ok) ==
  /\ inp.fn = "GET /auth/callback"
  /\ out.pc = "save"
  /\ out' = IF ok
            THEN [out EXCEPT !.pc = "done", !.status = 307, !.shopWrites = @ + 1,
                             !.cookies = @ + 1]
            ELSE [out EXCEPT !.pc = "done", !.status = 500]
  /\ UNCHANGED <<orchVars, inp>>

NextCallback ==
  \/ CallbackVerify
  \/ \E ok \in BOOLEAN : CallbackExchange(ok)
  \/ \E ok \in BOOLEAN : CallbackSave(ok)

SpecCallback == InitCallback /\ [][NextCallback]_vars

(* the request has shop, code and hmac, and the hmac is not the digest of
   the sorted, joined parameters *)
BadSignature ==
  /\ Param(inp.query, "shop") # "" /\ Param(inp.query, "code") # ""
  /\ inp.hmac # <<>>
  /\ inp.hmac # HmacSha256Hex(ApiSecret, JoinEntries(SortByKey(inp.query)))

(* C17: a callback with shop, code and an hmac that is not the digest,
   whatever its length, is answered 403 and exchanges no token, writes no
   shop record and sets no cookie. *)
C17_BadSignatureIs403 ==
  BadSignature
  => /\ out.exchanges = 0 /\ out.shopWrites = 0 /\ out.cookies = 0
     /\ out.pc # "start" => out.pc = "done" /\ out.status = 403

(***************************************************************************)
(* The per-URL fan-out of the per-product route (unnamed/part_007, lines   *)
(* 358-420): one fetchOrdersForProduct call per resolved URL and one       *)
(* session query, awaited together.  fetchedAt[i] is the number of edges   *)
(* the sub-call of URL i receives before a request of it fails; a number   *)
(* not below the product's order count means that no request fails.       *)
(***************************************************************************)
MaxFanOut == 2

FanOutUrls == {UrlA, UrlB, UrlGone}

(* the orders upstream: two of product 1, one of them a rebill, one of
   product 2 *)
FanOutWorld ==
  <<[amount |-> 100000, tags |-> << <<"vip">> >>, product |-> 1],
    [amount |-> 49990, tags |-> <<RebillMixedCase>>, product |-> 1],
    [amount |-> 250000, tags |-> <<>>, product |-> 2],
    [amount |-> 49990, tags |-> <<>>, product |-> 1]>>

NoFailure == Len(FanOutWorld)

(* fetchProductViewSessions: the view sessions by product title, all zero
   when the query fails *)
fetchProductViewSessions(title, ok) ==
  IF ~ok THEN 0
  ELSE CASE title = "Product A" -> 40
         [] title = "Product B" -> 8
         [] OTHER -> 0

(* a batch that fails as a whole when one sub-call fails *)
FanOutResponse_FailFast(urls, fetchedAt, sessionsOk) ==
  IF \E i \in DOMAIN urls :
       ProductOf(urls[i]).found /\ fetchedAt[i] < NoFailure
  THEN [status |-> 504, pages |-> <<>>]
  ELSE [status |-> 200,
        pages |-> [i \in DOMAIN urls |->
                     LET product == ProductOf(urls[i])
                         orderData == fetchOrdersForProduct(FanOutWorld, product.id, fetchedAt[i])
                     IN IF ~product.found
                        THEN calculatePageMetrics(urls[i], "Unknown Product", 0, 0, 0)
                        ELSE calculatePageMetrics(urls[i], product.title,
                               fetchProductViewSessions(product.title, sessionsOk),
                               10 * orderData.totalRevenue, orderData.orderCount)]]

(* lines 362-420: the page of every URL from its own sub-call, then the
   sessions filled in by product title *)
FanOutResponse(urls, fetchedAt, sessionsOk) ==
  [status |-> 200,
   pages |-> [i \in DOMAIN urls |->
                LET product == ProductOf(urls[i])
                    orderData == fetchOrdersForProduct(FanOutWorld, product.id, fetchedAt[i])
                    page == IF ~product.found
                            THEN calculatePageMetrics(urls[i], "Unknown Product", 0, 0, 0)
                            ELSE calculatePageMetrics(urls[i], product.title, 0,
                                   10 * orderData.totalRevenue, orderData.orderCount)
                IN calculatePageMetrics(page.url, page.productTitle,
                     fetchProductViewSessions(page.productTitle, sessionsOk),
                     10 * page.totalRevenue, page.orderCount)]]

InitFanOut ==
  /\ Idle
  /\ \E urls \in UNION {[1..n -> FanOutUrls] : n \in 1..MaxFanOut}, sessionsOk \in BOOLEAN :
       \E fetchedAt \in [DOMAIN urls -> 0..NoFailure] :
         inp = [fn |-> "fanOut", urls |-> urls, fetchedAt |-> fetchedAt,
                sessionsOk |-> sessionsOk]
  /\ out = <<>>

RunFanOut ==
  /\ inp.fn = "fanOut"
  /\ out = <<>>
  /\ out' = <<FanOutResponse(inp.urls, inp.fetchedAt, inp.sessionsOk)>>
  /\ UNCHANGED <<orchVars, inp>>

NextFanOut == RunFanOut

SpecFanOut == InitFanOut /\ [][NextFanOut]_vars

(* the sub-call of URL i fails *)
SubCallFails(i) == ProductOf(inp.urls[i]).found /\ inp.fetchedAt[i] < NoFailure

(* C18: whatever sub-calls fail, the batch is answered 200 with one entry
   per URL in request order, and the entry of every URL is the one it has
   when no sub-call of another URL fails. *)
C18_SubCallFailureIsLocal ==
  out # <<>>
  => /\ out[1].status = 200
     /\ Len(out[1].pages) = Len(inp.urls)
     /\ \A i \in DOMAIN inp.urls :
          /\ out[1].pages[i].url = inp.urls[i]
          /\ out[1].pages[i] =
               FanOutResponse(inp.urls,
                              [j \in DOMAIN inp.urls |->
                                 IF j = i THEN inp.fetchedAt[i] ELSE NoFailure],
                              inp.sessionsOk).pages[i]

(* the sub-call of /products/a failed at once, the one of /products/b did
   not: 200, product a without orders, product b with its order *)
C18_Witness ==
  /\ out # <<>>
  /\ inp.urls = <<UrlA, UrlB>> /\ inp.sessionsOk
  /\ SubCallFails(1) /\ ~SubCallFails(2)
  /\ out[1].status = 200
  /\ out[1].pages[1].orderCount = 0
  /\ out[1].pages[2].orderCount = 1 /\ out[1].pages[2].totalRevenue = 25000
  /\ out[1].pages[2].sessions = 8

(***************************************************************************)
(* The pagination of fetchOrdersForProduct (src/lib/shopify.ts, lines      *)
(* 150-240): pages of PageSize edges are requested while hasNextPage; a    *)
(* request that fails ends the loop, and the sums so far are returned.     *)
(***************************************************************************)
PageSize == 100

MaxProductOrders == 201
MaxFailPage == 3

(* the n orders of product 1 upstream, every fortieth of them a rebill *)
ProductOrders(n) ==
  [i \in 1..n |-> [amount |-> 10000,
                   tags |-> IF i % 40 = 0 THEN <<RebillMixedCase>> ELSE <<>>,
                   product |-> 1]]

(* lines 193-203 and 236-239: the ways a request fails *)
FailureKinds == {"status", "errors", "throws"}

(* page p is requested: the first always, the next ones while the page
   before reported hasNextPage *)
PageRequested(upstream, productId, p) ==
  p = 1 \/ Len(OrderSearch(upstream, productId, FALSE, FALSE)) > (p - 1) * PageSize

(* fetchOrdersForProduct when the request of page failPage fails
   (failPage = 0: none does): the edges of the pages before it were
   received *)
fetchOrdersForProductPaged(upstream, productId, failPage) ==
  IF failPage > 0 /\ PageRequested(upstream, productId, failPage)
  THEN fetchOrdersForProduct(upstream, productId, (failPage - 1) * PageSize)
  ELSE fetchOrdersForProduct(upstream, productId, Len(upstream))

InitPaging ==
  /\ Idle
  /\ \E n \in 0..MaxProductOrders, failPage \in 0..MaxFailPage, kind \in FailureKinds :
       inp = [fn |-> "fetchOrdersForProductPaged", upstream |-> ProductOrders(n),
              failPage |-> failPage, kind |-> kind]
  /\ out = <<>>

RunPaged ==
  /\ inp.fn = "fetchOrdersForProductPaged"
  /\ out = <<>>
  /\ out' = <<fetchOrdersForProductPaged(inp.upstream, 1, inp.failPage)>>
  /\ UNCHANGED <<orchVars, inp>>

NextPaging == RunPaged

SpecPaging == InitPaging /\ [][NextPaging]_vars

(* a request of the call failed *)
SubCallFailed == inp.failPage > 0 /\ PageRequested(inp.upstream, 1, inp.failPage)

(* C19: when a request of fetchOrdersForProduct fails on any page, the
   result is orderCount = 0 and totalRevenue = 0. *)
C19_FailureGivesZero ==
  (out # <<>> /\ SubCallFailed)
  => (out[1].orderCount = 0 /\ out[1].totalRevenue = 0)

(* what holds instead: a failure on the first page gives the zero result *)
C19_FirstPageFailureGivesZero ==
  (out # <<>> /\ inp.failPage = 1)
  => (out[1].orderCount = 0 /\ out[1].totalRevenue = 0)

(* the second request failed and the orders of the first page are reported *)
C19_PartialResult ==
  /\ out # <<>>
  /\ Len(inp.upstream) = 150 /\ inp.failPage = 2 /\ inp.kind = "status"
  /\ out[1].orderCount = 98 /\ out[1].totalRevenue = 98000

(***************************************************************************)
(* Lazy expiry of cache entries (getCachedData, unnamed/part_001 167-188), *)
(* on the behaviours of Spec.                                              *)
(***************************************************************************)

(* the cache lookup of request r found a row past its expiresAt and the
   delete of that row has been issued and has settled *)
ReadPastExpiry(r) ==
  /\ req[r].seen.row /\ req[r].seen.stale
  /\ req[r].pc # "cacheDelete"

(* C20 as stated: a payload is returned only from an entry that has not
   passed its expiresAt; a read past expiresAt returns null, and afterwards
   the entry that was read no longer exists. *)
C20_ExpiredReadDeletesEntry ==
  \A r \in Reqs :
    /\ req[r].hit => (req[r].seen.row /\ ~req[r].seen.stale)
    /\ req[r].seen.stale => (~req[r].hit /\ req[r].cachedId # 0)
    /\ ReadPastExpiry(r) => ~\E row \in cache : row.id = req[r].cachedId

(* C20 amended: a payload is returned only from an entry that has not passed
   its expiresAt; a read past expiresAt returns null and issues a delete of
   the entry by id; once that delete has succeeded no entry of that id exists
   any more, whatever is written and read afterwards; a delete that throws
   is swallowed and changes nothing. *)
C20_ExpiredReadDeletesUnlessDeleteFails ==
  \A r \in Reqs :
    /\ req[r].hit => (req[r].seen.row /\ ~req[r].seen.stale)
    /\ req[r].seen.stale => (~req[r].hit /\ req[r].cachedId # 0)
    /\ (ReadPastExpiry(r) /\ "delete" \notin req[r].fault)
       => ~\E row \in cache : row.id = req[r].cachedId

(* a request read the entry of an earlier request a minute past its
   expiresAt, deleted it, recomputed and answered 200 *)
C20_Witness ==
  \E r \in Reqs :
    /\ ReadPastExpiry(r) /\ "delete" \notin req[r].fault
    /\ req[r].seen.writer # r
    /\ now = CACHE_TTL_MINUTES + 1
    /\ Done(r) /\ req[r].status = 200 /\ ~req[r].hit /\ req[r].calls >= 1
    /\ ~\E row \in cache : row.id = req[r].cachedId

(***************************************************************************)
(* Rounding along the per-product pipeline: fetchOrdersForProduct rounds   *)
(* its sum (src/lib/shopify.ts, line 244), calculatePageMetrics takes the  *)
(* rounded sum as its revenue (unnamed/part_007, lines 382 and 396).       *)
(* Amounts are in thousandths, as of a currency with three decimals.       *)
(***************************************************************************)
MaxAmounts == 3
MaxVisitors == 3

OrderAmounts == {503, 1000, 49990}

(* the page of one product: the order data of fetchOrdersForProduct, the
   page without sessions, then the page with the sessions filled in *)
PerProductPage(amounts, sessions) ==
  LET upstream == [i \in DOMAIN amounts |->
                     [amount |-> amounts[i], tags |-> <<>>, product |-> 1]]
      orderData == fetchOrdersForProduct(upstream, 1, Len(upstream))
      page == calculatePageMetrics(UrlA, "Product A", 0,
                                   10 * orderData.totalRevenue, orderData.orderCount)
  IN calculatePageMetrics(page.url, page.productTitle, sessions,
                          10 * page.totalRevenue, page.orderCount)

InitRounding ==
  /\ Idle
  /\ \E amounts \in UNION {[1..n -> OrderAmounts] : n \in 0..MaxAmounts},
        sessions \in 0..MaxVisitors :
       inp = [fn |-> "perProductPage", amounts |-> amounts, sessions |-> sessions]
  /\ out = <<>>

RunRounding ==
  /\ inp.fn = "perProductPage"
  /\ out = <<>>
  /\ out' = <<PerProductPage(inp.amounts, inp.sessions)>>
  /\ UNCHANGED <<orchVars, inp>>

NextRounding == RunRounding

SpecRounding == InitRounding /\ [][NextRounding]_vars

(* C21: totalRevenue, revenuePerVisitor and aov of the page are the exact
   sum of the order amounts, and that sum divided by the sessions and by the
   order count, each rounded once to two decimals; conversionRate is the
   exact rate rounded once. *)
C21_RoundedOnceAtTheEnd ==
  out # <<>>
  => LET sum == SumSeq(inp.amounts)
         n == Len(inp.amounts)
     IN /\ out[1].totalRevenue = Round2(sum, 1000)
        /\ out[1].aov = (IF n > 0 THEN Round2(sum, 1000 * n) ELSE 0)
        /\ out[1].revenuePerVisitor =
             (IF inp.sessions > 0 THEN Round2(sum, 1000 * inp.sessions) ELSE 0)
        /\ out[1].conversionRate =
             (IF inp.sessions > 0 THEN Round2(100 * n, inp.sessions) ELSE 0)

(* what holds: totalRevenue and conversionRate are rounded once from exact
   values *)
C21_TotalAndRateRoundedOnce ==
  out # <<>>
  => /\ out[1].totalRevenue = Round2(SumSeq(inp.amounts), 1000)
     /\ out[1].conversionRate =
          (IF inp.sessions > 0 THEN Round2(100 * Len(inp.amounts), inp.sessions) ELSE 0)

(***************************************************************************)
(* Cancelled orders.  fetchOrders asks for status 'any' (src/lib/          *)
(* shopify.ts, line 518) and the order search of fetchOrdersForProduct     *)
(* carries no status term (line 158): upstream answers with the cancelled  *)
(* orders as well.  The pipelines are those of SpecRebill.                 *)
(***************************************************************************)
MaxCancelled == 3

NotCancelled == "null"

CancellableOrders ==
  [amount : {100000, 49990}, tags : {<<>>}, product : {1},
   cancelledAt : {NotCancelled, "2024-01-15T10:00:00Z"}]

InitCancelled ==
  /\ Idle
  /\ \E upstream \in UNION {[1..k -> CancellableOrders] : k \in 0..MaxCancelled},
        fn \in {"calculateComparison", "bulk", "fetchOrdersForProduct_query",
                "fetchOrdersForProduct"} :
       inp = [fn |-> fn, upstream |-> upstream, applied |-> FALSE,
              fetched |-> Len(upstream)]
  /\ out = <<>>

SpecCancelled == InitCancelled /\ [][NextRebill]_vars

LiveOrders ==
  LET Live(o) == o.cancelledAt = NotCancelled
  IN SelectSeq(inp.upstream, Live)

(* C22: an order whose cancelledAt is set adds nothing to orderCount or
   totalRevenue, in the bulk pipelines and in the per-product pipeline: both
   stay within what the orders that are not cancelled account for. *)
C22_CancelledNeverCounted ==
  out # <<>>
  => /\ out[1].orderCount <= Len(LiveOrders)
     /\ 10 * out[1].totalRevenue
          <= SumSeq([i \in DOMAIN LiveOrders |-> LiveOrders[i].amount])

(* a single cancelled order is counted with its full amount by the
   per-product pipeline *)
C22_CancelledCounted ==
  /\ out # <<>>
  /\ inp.fn = "fetchOrdersForProduct"
  /\ Len(inp.upstream) = 1 /\ inp.upstream[1].cancelledAt # NotCancelled
  /\ out[1].orderCount = 1 /\ 10 * out[1].totalRevenue = inp.upstream[1].amount

(***************************************************************************)
(* URL variants of one product page through POST /analytics: the handle of *)
(* resolveProductsFromUrls (taken from the URL as sent), the path of       *)
(* normalizeUrlPath and the page built from both.                          *)
(***************************************************************************)
Slugs == {"a", "b", "gone"}

UrlForms == {"absolute", "relative", "slashless"}

UrlOfForm(slug, form) ==
  CASE form = "absolute" -> <<"https://shop.example", "/", "products", "/", slug>>
    [] form = "relative" -> <<"/", "products", "/", slug>>
    [] form = "slashless" -> <<"products", "/", slug>>

(* route.ts 83-160 for the single URL url: what the resolution and the path
   normalization make of it, and its page *)
VariantResult(url, dateRange, degraded, failed) ==
  LET urls == <<url>>
      resolved == IF ProductOf(url).found THEN {url} ELSE {}
      urlPaths == [i \in DOMAIN urls |-> normalizeUrlPath(urls[i])]
      landingPageMap == fetchLandingPageData(urlPaths, dateRange, degraded)
      revFailed == IF failed THEN RevenueIndexes(urls, resolved, landingPageMap) ELSE {}
  IN [handle |-> extractProductHandle(url),
      path |-> urlPaths[1],
      page |-> BuildPages(urls, resolved, landingPageMap, dateRange, revFailed)[1]]

InitVariants ==
  /\ Idle
  /\ \E slug \in Slugs, form \in UrlForms, dateRange \in {DateJan, DateQ1},
        degraded \in BOOLEAN, failed \in BOOLEAN :
       inp = [fn |-> "variant", slug |-> slug, form |-> form, dateRange |-> dateRange,
              degraded |-> degraded, failed |-> failed]
  /\ out = <<>>

RunVariant ==
  /\ inp.fn = "variant"
  /\ out = <<>>
  /\ out' = <<VariantResult(UrlOfForm(inp.slug, inp.form), inp.dateRange,
                            inp.degraded, inp.failed)>>
  /\ UNCHANGED <<orchVars, inp>>

NextVariants == RunVariant

SpecVariants == InitVariants /\ [][NextVariants]_vars

(* the result for the relative form of the same slug *)
RelativeResult ==
  VariantResult(UrlOfForm(inp.slug, "relative"), inp.dateRange, inp.degraded, inp.failed)

SameMetrics(p, q) == [p EXCEPT !.url = q.url] = q

(* C23: the absolute, the relative and the slash-less URL of a slug resolve
   to the same catalog entity and the same normalized path and have the
   same metrics in the response. *)
C23_VariantsAgree ==
  out # <<>>
  => /\ out[1].handle = RelativeResult.handle
     /\ out[1].path = RelativeResult.path
     /\ SameMetrics(out[1].page, RelativeResult.page)

(* what holds: the slash-less form agrees with the relative one, and the
   absolute form has the same normalized path but no handle *)
C23_SlashlessAgrees ==
  out # <<>>
  => /\ out[1].path = RelativeResult.path
     /\ inp.form = "slashless"
        => /\ out[1].handle = RelativeResult.handle
           /\ SameMetrics(out[1].page, RelativeResult.page)
     /\ inp.form = "absolute" => out[1].handle = <<>>

(* the absolute URL of product a is reported as an unknown product without
   sessions while its relative URL has 100 sessions *)
C23_AbsoluteUnresolved ==
  /\ out # <<>>
  /\ inp.slug = "a" /\ inp.form = "absolute" /\ ~inp.degraded
  /\ out[1].page.productTitle = "Unknown Product" /\ out[1].page.sessions = 0
  /\ RelativeResult.page.productTitle = "Product A"
  /\ RelativeResult.page.sessions = 100

(***************************************************************************)
(* The outer catch block of POST /analytics (route.ts, lines 186-193), on  *)
(* the behaviours of Spec.                                                 *)
(***************************************************************************)
(* line 188: the text used when the thrown value is not an Error *)
MsgGeneric == "Failed to fetch analytics data"

(* request r ended in the outer catch block *)
Uncategorized(r) ==
  Done(r) /\ req[r].status = 500 /\ req[r].stage # "session"

(* C24: an uncategorized exception is answered 500 with one fixed text,
   whatever the exception was: the text is that of line 188 and any two such
   responses carry the same text. *)
C24_GenericMessage ==
  \A r1, r2 \in Reqs :
    (Uncategorized(r1) /\ Uncategorized(r2))
    => /\ req[r1].error = MsgGeneric
       /\ req[r1].error = req[r2].error

(* what holds: the response carries the message of the exception itself *)
C24_MessageOfException ==
  \A r \in Reqs : Uncategorized(r) => req[r].error = req[r].raw

(* a body without urls is answered with the text of the TypeError *)
C24_InternalTextSent ==
  \E r \in Reqs :
    /\ Uncategorized(r) /\ req[r].stage = "parse"
    /\ req[r].error = "Cannot read properties of undefined (reading 'length')"

(***************************************************************************)
(* The pagination loop of fetchOrdersForProduct (src/lib/shopify.ts, lines *)
(* 143-245), one request per step, when no request fails.  Upstream holds  *)
(* the orders of the product in a fixed sequence and serves, after a       *)
(* cursor, the next pageLen of them; the cursor of an edge is its position.*)
(* out[1] is the state of the loop.                                        *)
(***************************************************************************)
MaxChain == 4
MaxPageLen == 2

(* the answer of upstream to orders(first, after: cursor); cursor 0 is
   the absent cursor *)
ServeAfter(orders, pageLen, cursor) ==
  LET rest == Len(orders) - cursor
      k == IF rest < pageLen THEN rest ELSE pageLen
  IN [edges |-> [i \in 1..k |-> [node |-> orders[cursor + i], cursor |-> cursor + i]],
      hasNextPage |-> cursor + pageLen < Len(orders)]

(* the cursor of the first edge of the page taken for the next request *)
NextCursor_First(edges) == edges[1].cursor

(* line 230: cursor = edges[edges.length - 1].cursor *)
NextCursor(edges) == edges[Len(edges)].cursor

(* lines 143-148 *)
LoopStart ==
  [cursor |-> 0, hasMore |-> TRUE, requests |-> <<>>, orderCount |-> 0,
   totalRevenue |-> 0, done |-> FALSE]

InitPagination ==
  /\ Idle
  /\ \E orders \in UNION {[1..n -> [amount : {100000}, product : {1},
                                    tags : {<<>>, <<RebillMixedCase>>}]] :
                            n \in 0..MaxChain},
        pageLen \in 1..MaxPageLen :
       inp = [fn |-> "paginate", orders |-> orders, pageLen |-> pageLen]
  /\ out = <<LoopStart>>

(* lines 150-235: one turn of the loop with a request that succeeds *)
RequestPage ==
  /\ inp.fn = "paginate"
  /\ out[1].hasMore /\ ~out[1].done
  /\ LET loop == out[1]
         data == ServeAfter(inp.orders, inp.pageLen, loop.cursor)
         edges == data.edges
         nodes == [i \in DOMAIN edges |-> edges[i].node]
         counted == DropRebills(nodes)
         hasMore == data.hasNextPage /\ Len(edges) > 0
     IN out' = <<[loop EXCEPT
                    !.requests = Append(@, loop.cursor),
                    !.orderCount = @ + Len(counted),
                    !.totalRevenue = @ + SumSeq([i \in DOMAIN counted |-> counted[i].amount]),
                    !.hasMore = hasMore,
                    !.cursor = IF hasMore THEN NextCursor(edges) ELSE @]>>
  /\ UNCHANGED <<orchVars, inp>>

(* lines 243-244: the loop has ended, the sums are returned *)
ReturnOrderData ==
  /\ inp.fn = "paginate"
  /\ ~out[1].hasMore /\ ~out[1].done
  /\ out' = <<[out[1] EXCEPT !.done = TRUE,
                             !.totalRevenue = Round2(@, 1000)]>>
  /\ UNCHANGED <<orchVars, inp>>

NextPagination == RequestPage \/ ReturnOrderData

(* the loop is a sequence of awaited steps of one async function: it is
   never suspended for ever while a step is possible *)
SpecPagination == InitPagination /\ [][NextPagination]_vars /\ WF_vars(NextPagination)

(* the number of pages upstream serves: at least one, the last perhaps
   short *)
PagesServed ==
  IF Len(inp.orders) = 0 THEN 1
  ELSE (Len(inp.orders) + inp.pageLen - 1) \div inp.pageLen

PaginationSafe ==
  LET loop == out[1]
      wanted == DropRebills(inp.orders)
  IN /\ Len(loop.requests) <= PagesServed
     /\ \A k \in DOMAIN loop.requests : loop.requests[k] = (k - 1) * inp.pageLen
     /\ loop.done
        => /\ Len(loop.requests) = PagesServed
           /\ loop.orderCount = Len(wanted)
           /\ loop.totalRevenue
                = Round2(SumSeq([i \in DOMAIN wanted |-> wanted[i].amount]), 1000)

(* C25: when no request fails the loop terminates; page k is requested once,
   with the cursor of the last edge of page k - 1 (none for the first); no
   request follows the last page; the result counts every order of the
   product without the rebill tag exactly once. *)
C25_PaginatesUntilExhausted == []PaginationSafe /\ <>(out[1].done)

(* three pages of one order, the second a rebill: three requests, two
   orders counted *)
C25_Witness ==
  /\ out[1].done
  /\ out[1].requests = <<0, 1, 2>>
  /\ Len(inp.orders) = 3 /\ IsRebill(inp.orders[2].tags)
  /\ out[1].orderCount = 2 /\ out[1].totalRevenue = 20000

(***************************************************************************)
(* The session counts of fetchSessionsByLandingPage (specification         *)
(* SpecSessions).                                                          *)
(***************************************************************************)
(* the sessions of the rows that match the path, every row once *)
MatchingSessions(rows, targetPath) ==
  SumSeq([i \in DOMAIN rows |->
            IF PathMatches(ToLowerCase(rows[i].landing_page_path), ToLowerCase(targetPath))
            THEN rows[i].sessions ELSE 0])

(* C26: the returned map has exactly the requested paths as keys; the count
   of a path is the sum of the sessions of all rows that match it, every
   matching row counted once, also when the path occurs more than once in
   the list; it is 0 for a path no row matches. *)
C26_SessionsSummedOnce ==
  out # <<>>
  => /\ DOMAIN out[1].sessionMap = Range(inp.urlPaths)
     /\ \A t \in Range(inp.urlPaths) :
          out[1].sessionMap[t] = (IF inp.ok THEN MatchingSessions(inp.rows, t) ELSE 0)

(* what holds: the sum is added once per occurrence of the path in the
   list *)
C26_SessionsSummedPerOccurrence ==
  out # <<>>
  => /\ DOMAIN out[1].sessionMap = Range(inp.urlPaths)
     /\ \A t \in Range(inp.urlPaths) :
          out[1].sessionMap[t] =
            (IF inp.ok
             THEN MatchingSessions(inp.rows, t)
                    * Cardinality({j \in DOMAIN inp.urlPaths : inp.urlPaths[j] = t})
             ELSE 0)

(* /products/foo requested twice, one row of 3 sessions: 6 are reported *)
C26_CountedTwice ==
  /\ out # <<>> /\ inp.ok
  /\ inp.urlPaths = <<PathFoo, PathFoo>>
  /\ Len(inp.rows) = 1 /\ inp.rows[1].landing_page_path = PathFoo
  /\ inp.rows[1].sessions = 3
  /\ out[1].sessionMap[PathFoo] = 6

(***************************************************************************)
(* Concurrent cache writes (setCachedData, unnamed/part_001 190-216), on   *)
(* the behaviours of Spec.                                                 *)
(***************************************************************************)
(* at most one entry per tenant and key *)
OneEntryPerKey ==
  \A row1, row2 \in cache :
    (row1.shopId = row2.shopId /\ row1.queryKey = row2.queryKey) => row1 = row2

(* the write w settles in this step without throwing: afterwards the one
   entry of its tenant and key holds its payload and its expiresAt *)
SettledWriteIsStored ==
  \A w \in pending \ pending' :
    "write" \notin req'[w.writer].fault
    => \E row \in cache' :
         /\ row.shopId = w.shopId /\ row.queryKey = w.queryKey
         /\ row.data = w.data /\ row.expiresAt = w.expiresAt

(* C27: there is never more than one entry for a tenant and key, and every
   write that settles leaves its own payload and expiresAt in that entry,
   whatever was stored before: after two writes of the same key the entry
   is that of the write that settled last. *)
C27_LastWriteWins == []OneEntryPerKey /\ [][SettledWriteIsStored]_vars

(* two requests computed a response for the same key, the second half an
   hour after the first; the write of the first settled last and its older
   payload is the entry *)
C27_Witness ==
  \E r1, r2 \in Reqs :
    /\ r1 # r2 /\ Done(r1) /\ Done(r2) /\ pending = {}
    /\ req[r1].status = 200 /\ req[r2].status = 200
    /\ ~req[r1].hit /\ ~req[r2].hit
    /\ req[r1].key = req[r2].key /\ ShopOf(r1) = ShopOf(r2)
    /\ req[r1].fault = {} /\ req[r2].fault = {}
    /\ req[r1].payload.lastUpdated < req[r2].payload.lastUpdated
    /\ \E row \in FindRows(ShopOf(r1), req[r1].key) :
         /\ row.writer = r1 /\ row.data = req[r1].payload
         /\ row.expiresAt = req[r1].payload.lastUpdated + CACHE_TTL_MINUTES

(***************************************************************************)
(* getCachedData and setCachedData (unnamed/part_001, lines 167-216)       *)
(* called concurrently for one tenant and key.  out[1] holds the position  *)
(* of every getCachedData call, inp the number of setCachedData calls      *)
(* made.  The upsert and the clock are those of Spec.                      *)
(***************************************************************************)
MaxReaders == 2
MaxWrites == 2

Readers == 1..MaxReaders

RaceShop == "shop-1"

RaceKey == <<"md5", "k">>

InitExpiryRace ==
  /\ Idle
  /\ inp = [fn |-> "cache", writes |-> 0]
  /\ out = <<[k \in Readers |-> [pc |-> "idle", cachedId |-> 0, result |-> "none"]]>>

(* setCachedData up to its upsert call, made by caller c *)
SetCached(c) ==
  /\ inp.fn = "cache"
  /\ inp.writes < MaxWrites
  /\ pending' = pending \cup
       {CacheWrite(RaceShop, RaceKey, [lastUpdated |-> now], c)}
  /\ inp' = [inp EXCEPT !.writes = @ + 1]
  /\ UNCHANGED <<req, cache, nextId, now, ticks, out>>

(* getCachedData, lines 169-184: findUnique and the expiry test; ok is
   FALSE when the read throws *)
GetCachedFind(k, ok) ==
  /\ inp.fn = "cache"
  /\ out[1][k].pc = "idle"
  /\ LET rows == FindRows(RaceShop, RaceKey)
     IN out' = <<[out[1] EXCEPT ![k] =
                   IF ~ok \/ rows = {}
                   THEN [@ EXCEPT !.pc = "done", !.result = "null"]
                   ELSE LET cached == CHOOSE row \in rows : TRUE
                        IN IF IsExpired(cached)
                           THEN [@ EXCEPT !.pc = "delete", !.cachedId = cached.id]
                           ELSE [@ EXCEPT !.pc = "done", !.result = cached.data]]>>
  /\ UNCHANGED <<orchVars, inp>>

(* getCachedData, lines 178-181 and 185-187: delete({ where: { id } }) and
   return null, also when the delete throws *)
GetCachedDelete(k, ok) ==
  /\ inp.fn = "cache"
  /\ out[1][k].pc = "delete"
  /\ cache' = IF ok THEN {row \in cache : row.id # out[1][k].cachedId} ELSE cache
  /\ out' = <<[out[1] EXCEPT ![k] = [@ EXCEPT !.pc = "done", !.result = "null"]]>>
  /\ UNCHANGED <<req, pending, nextId, now, ticks, inp>>

NextExpiryRace ==
  \/ \E c \in Reqs : SetCached(c)
  \/ \E w \in pending, ok \in BOOLEAN : CacheWriteDone(w, ok)
  \/ \E k \in Readers, ok \in BOOLEAN : GetCachedFind(k, ok)
  \/ \E k \in Readers, ok \in BOOLEAN : GetCachedDelete(k, ok)
  \/ Tick

SpecExpiryRace == InitExpiryRace /\ [][NextExpiryRace]_vars

(* the lazy delete of a reader removes nothing that is unexpired at the
   moment of the delete *)
DeleteRemovesExpiredOnly ==
  \A k \in Readers :
    (out[1][k].pc = "delete" /\ out'[1][k].pc = "done")
    => \A row \in cache \ cache' : IsExpired(row)

(* C28: under any interleaving of getCachedData with setCachedData for the
   same tenant and key, the delete of the lazy expiry never removes an
   entry that is unexpired at the moment of the delete. *)
C28_LazyDeleteKeepsFreshEntry == [][DeleteRemovesExpiredOnly]_vars

(* what holds: the entry a reader deletes has the id of the entry it read
   past its expiry, and a payload it returns was unexpired when read *)
C28_DeleteIsById ==
  [][\A k \in Readers :
       (out[1][k].pc = "delete" /\ out'[1][k].pc = "done")
       => \A row \in cache \ cache' : row.id = out[1][k].cachedId]_vars

(* a reader is about to delete by id the entry it read past its expiry,
   which a write has refreshed in the meantime *)
C28_FreshEntryAtRisk ==
  \E k \in Readers :
    /\ out[1][k].pc = "delete"
    /\ \E row \in cache :
         /\ row.id = out[1][k].cachedId
         /\ ~IsExpired(row)
         /\ row.expiresAt = now + CACHE_TTL_MINUTES

(***************************************************************************)
(* What the cache holds (specification Spec).                              *)
(***************************************************************************)
(* the row, stored or about to be, is the response of a request of its
   tenant that passed validation and every stage, under the key of that
   request's parameters *)
IsComputedResponse(row) ==
  LET r == row.writer
  IN /\ r \in Reqs /\ Validated(r)
     /\ Done(r) /\ req[r].status = 200 /\ ~req[r].hit
     /\ req[r].error = "" /\ req[r].stage = ""
     /\ req[r].calls >= 1
     /\ row.shopId = ShopOf(r)
     /\ row.queryKey = req[r].key
     /\ row.queryKey = generateCacheKey(CacheParams(req[r].body))
     /\ row.data = req[r].payload
     /\ Len(row.data.pages) = Len(UrlsOf(req[r].body))
     /\ \A i \in DOMAIN row.data.pages : row.data.pages[i].url = UrlsOf(req[r].body)[i]

(* C29: every cache entry, and every cache write in flight, holds the
   response computed for a request of its tenant whose cache key is its
   key, after the resolution and the fetch/compute stage have completed; a
   request answered 400, 401, 500 or 504 writes nothing. *)
C29_CacheHoldsComputedResponses ==
  /\ \A row \in cache \cup pending : IsComputedResponse(row)
  /\ \A r \in Reqs :
       (Done(r) /\ req[r].status # 200)
       => /\ req[r].cacheWrites = 0
          /\ ~\E row \in cache \cup pending : row.writer = r

(* the second shop's request stored its response while the other request
   failed with 504 and stored nothing *)
C29_Witness ==
  \E r1, r2 \in Reqs :
    /\ Done(r1) /\ req[r1].status = 504
    /\ Done(r2) /\ req[r2].status = 200 /\ ShopOf(r2) = "shop-2"
    /\ pending = {}
    /\ \A row \in cache : row.writer = r2 /\ row.shopId = "shop-2"
    /\ cache # {}

(***************************************************************************)
(* withTimeout (route.ts, lines 13-23) around one stage of POST /analytics *)
(* and the continuation of the route after the await.  out[1] holds the    *)
(* wrapped promise (inner), the timer, the promise withTimeout returns     *)
(* (outer) and what the route has done.                                    *)
(***************************************************************************)
Stages == {"resolve", "landing", "revenue"}

(* the calls the route wraps: the session and the cache lookup and the
   three stages *)
Wrapped == {"session", "cache"} \cup Stages

(* line 16: `${label} timed out after ${ms}ms` with the labels and budgets
   of lines 31, 63-67, 87-91, 109-113 and 139-143 *)
TimeoutError(stage) ==
  CASE stage = "session" -> "Session lookup timed out after 5000ms"
    [] stage = "cache" -> "Cache lookup timed out after 3000ms"
    [] stage = "resolve" -> "Product resolution timed out after 30000ms"
    [] stage = "landing" -> "ShopifyQL sessions query timed out after 60000ms"
    [] stage = "revenue" -> "GraphQL revenue queries timed out after 90000ms"

Unsettled == [state |-> "pending", value |-> ""]

(* lines 14-15 and 18: the promise and the timer are created, the
   callbacks registered *)
TimeoutStart ==
  [inner |-> Unsettled, delivered |-> FALSE, timer |-> "armed", outer |-> Unsettled,
   settlements |-> 0, route |-> "awaiting", responses |-> <<>>, cacheWrites |-> 0]

(* a settlement that replaces an earlier one *)
SettleOuter_Overwriting(p, state, value) ==
  [p EXCEPT !.outer = [state |-> state, value |-> value], !.settlements = @ + 1]

(* resolve / reject of the returned promise: only the first call settles
   it *)
SettleOuter(p, state, value) ==
  IF p.outer.state = "pending"
  THEN [p EXCEPT !.outer = [state |-> state, value |-> value], !.settlements = @ + 1]
  ELSE p

InitTimeout ==
  /\ Idle
  /\ \E stage \in Wrapped : inp = [fn |-> "withTimeout", stage |-> stage]
  /\ out = <<TimeoutStart>>

(* the wrapped promise settles, with a value or with an error of its own *)
InnerSettles(state, value) ==
  /\ inp.fn = "withTimeout"
  /\ out[1].inner.state = "pending"
  /\ out' = <<[out[1] EXCEPT !.inner = [state |-> state, value |-> value]]>>
  /\ UNCHANGED <<orchVars, inp>>

(* lines 18-21: the callback of the wrapped promise runs: clearTimeout,
   then resolve or reject *)
ThenCallback ==
  /\ inp.fn = "withTimeout"
  /\ out[1].inner.state # "pending" /\ ~out[1].delivered
  /\ LET cleared == [out[1] EXCEPT !.delivered = TRUE,
                                   !.timer = IF @ = "armed" THEN "cleared" ELSE @]
     IN out' = <<SettleOuter(cleared, out[1].inner.state, out[1].inner.value)>>
  /\ UNCHANGED <<orchVars, inp>>

(* lines 15-17: the timer fires; it cannot while the callback of a settled
   wrapped promise is still queued, microtasks run first *)
TimerFires ==
  /\ inp.fn = "withTimeout"
  /\ out[1].timer = "armed"
  /\ out[1].inner.state # "pending" => out[1].delivered
  /\ out' = <<SettleOuter([out[1] EXCEPT !.timer = "fired"], "rejected",
                          TimeoutError(inp.stage))>>
  /\ UNCHANGED <<orchVars, inp>>

(* the status of the catch block of each wrapped call; 0 for the cache
   lookup, whose catch block lets the request go on (lines 72-74) *)
CatchStatus(stage) ==
  CASE stage = "session" -> 500
    [] stage = "cache" -> 0
    [] OTHER -> 504

(* the route resumes after its await: a rejection goes to the catch block
   of the call; no session is answered 401 and a cached payload 200; the
   value of the last stage is answered and cached (lines 146-177); any other
   value starts the next stage *)
RouteResumes ==
  /\ inp.fn = "withTimeout"
  /\ out[1].route = "awaiting" /\ out[1].outer.state # "pending"
  /\ LET p == out[1]
         Respond(status) == [p EXCEPT !.route = "responded",
                                      !.responses = Append(@, status)]
         GoOn == [p EXCEPT !.route = "nextStage"]
     IN out' = <<IF p.outer.state = "rejected"
                 THEN (IF CatchStatus(inp.stage) = 0 THEN GoOn
                       ELSE Respond(CatchStatus(inp.stage)))
                 ELSE CASE inp.stage = "session" ->
                             IF p.outer.value = "null" THEN Respond(401) ELSE GoOn
                        [] inp.stage = "cache" ->
                             IF p.outer.value = "null" THEN GoOn ELSE Respond(200)
                        [] inp.stage = "revenue" ->
                             [Respond(200) EXCEPT !.cacheWrites = @ + 1]
                        [] OTHER -> GoOn>>
  /\ UNCHANGED <<orchVars, inp>>

NextTimeout ==
  \/ \E value \in {"data", "null"} : InnerSettles("fulfilled", value)
  \/ \E value \in {"Shopify API error 502", "fetch failed"} : InnerSettles("rejected", value)
  \/ ThenCallback
  \/ TimerFires
  \/ RouteResumes

SpecTimeout == InitTimeout /\ [][NextTimeout]_vars

(* C30: the promise of withTimeout settles at most once; settled by the
   wrapped promise it carries that promise's value or error unchanged and
   the timer is cleared; once the timer has fired it is rejected with the
   labelled timeout error and stays so whatever the wrapped promise does
   later; the route responds at most once, and after the timeout of a
   stage with 504 and without a cache write. *)
C30_SettlesOnce ==
  LET p == out[1]
  IN /\ p.settlements <= 1
     /\ (p.outer.state # "pending") <=> (p.settlements = 1)
     /\ p.timer = "cleared"
        => /\ p.inner.state # "pending" /\ p.delivered
           /\ p.outer = p.inner
     /\ p.timer = "fired"
        => p.outer = [state |-> "rejected", value |-> TimeoutError(inp.stage)]
     /\ p.timer = "armed" => p.outer.state = "pending"
     /\ Len(p.responses) <= 1 /\ p.cacheWrites <= 1
     /\ (p.timer = "fired" /\ p.route # "awaiting")
        => /\ p.cacheWrites = 0
           /\ inp.stage \in Stages => p.responses = <<504>>
           /\ inp.stage = "session" => p.responses = <<500>>
           /\ inp.stage = "cache" => p.responses = <<>>
     /\ p.cacheWrites = 1 => (p.responses = <<200>> /\ p.outer.state = "fulfilled")

(* the revenue stage timed out, the request was answered 504, and the
   result that arrived afterwards changed nothing *)
C30_Witness ==
  /\ inp.stage = "revenue"
  /\ out[1].timer = "fired"
  /\ out[1].inner = [state |-> "fulfilled", value |-> "data"] /\ out[1].delivered
  /\ out[1].outer.value = "GraphQL revenue queries timed out after 90000ms"
  /\ out[1].responses = <<504>> /\ out[1].cacheWrites = 0

====
